---- MODULE Spec2Model ----
(***************************************************************************)
(* CompareIt: the comparison pipeline of ComparisonEngine::run             *)
(* (index -> fingerprint -> candidate pairs -> pairwise compare) with the  *)
(* matcher of match_files.rs and the dispatch of compare_pair.             *)
(*                                                                         *)
(* Similarities are f64 in the source.  They are modelled as exact         *)
(* rationals in lowest terms, [n |-> numerator, d |-> denominator], so     *)
(* that 1.0, 1 - d/64, 0.5 and min/max * 0.3 are compared exactly.         *)
(***************************************************************************)
EXTENDS Integers, Sequences, FiniteSets, TLC

\* Largest number of files one input directory holds.
MaxFiles == 2

\* Number of worker threads of the compare stage, and the largest number of
\* files the walk of a directory yields in a run whose compare stage is
\* followed.
MaxWorkers == 2

MaxWalk == 3

\* Largest numbers of left and right entries handed to the similarity pass.
MaxLeft == 2

MaxRight == 3

(***************************************************************************)
(* Generic helpers                                                         *)
(***************************************************************************)
Min(a, b) == IF a <= b THEN a ELSE b

Max(a, b) == IF a >= b THEN a ELSE b

RECURSIVE GCD(_, _)
GCD(a, b) == IF b = 0 THEN a ELSE GCD(b, a % b)

\* The rational n/d in lowest terms (d > 0).
Rat(n, d) == LET g == GCD(n, d) IN [n |-> n \div g, d |-> d \div g]

RatLt(a, b) == a.n * b.d < b.n * a.d

RatLeq(a, b) == a.n * b.d <= b.n * a.d

One == Rat(1, 1)

Zero == Rat(0, 1)

\* Option<T>: None and Some(v), one None per payload type.
NoneInt == [some |-> FALSE, v |-> 0]

NoneSet == [some |-> FALSE, v |-> {}]

NoneSeq == [some |-> FALSE, v |-> <<>>]

Some(x) == [some |-> TRUE, v |-> x]

SeqToSet(s) == {s[i] : i \in 1..Len(s)}

\* Vec::truncate / Iterator::take
Take(s, k) == IF k >= Len(s) THEN s ELSE SubSeq(s, 1, k)

RECURSIVE FilterSeq(_, _)
\* s.iter().filter(keep): keep is the set of indices that pass
FilterSeq(s, keep) ==
    IF s = <<>> THEN <<>>
    ELSE LET n == Len(s)
             front == FilterSeq(SubSeq(s, 1, n - 1), keep)
         IN IF n \in keep THEN Append(front, s[n]) ELSE front

(***************************************************************************)
(* The file system the run reads.  A file content is named by an id; the   *)
(* BLAKE3 hash of a content is modelled by the id itself (no collisions).  *)
(*   utf8      the bytes are valid UTF-8 (BufRead::lines succeeds)         *)
(*   printable the sniff of the first 8 KiB finds printable text           *)
(*   lines     the lines BufRead::lines yields (terminators stripped)      *)
(*   term      the last line ends with a newline terminator                *)
(*   size      metadata.len()                                              *)
(***************************************************************************)
ContentIds == {"X3", "W3", "B1", "B1n", "T1", "T2", "U6", "E0"}

Content(id) ==
    CASE id = "X3"  -> [utf8 |-> TRUE, printable |-> TRUE, term |-> FALSE, size |-> 5,
                        lines |-> <<"x", "y", "z">>]
      [] id = "W3"  -> [utf8 |-> TRUE, printable |-> TRUE, term |-> FALSE, size |-> 6,
                        lines |-> <<"x", "y", "ww">>]
      [] id = "B1"  -> [utf8 |-> TRUE, printable |-> FALSE, term |-> FALSE, size |-> 1,
                        lines |-> <<"\\x01">>]
      [] id = "B1n" -> [utf8 |-> TRUE, printable |-> FALSE, term |-> TRUE, size |-> 2,
                        lines |-> <<"\\x01">>]
      [] id = "T1"  -> [utf8 |-> TRUE, printable |-> TRUE, term |-> TRUE, size |-> 17,
                        lines |-> <<"id,val", "1,10", "2,20">>]
      [] id = "T2"  -> [utf8 |-> TRUE, printable |-> TRUE, term |-> TRUE, size |-> 22,
                        lines |-> <<"id,val", "1,10", "2,21", "3,30">>]
      [] id = "U6"  -> [utf8 |-> TRUE, printable |-> TRUE, term |-> TRUE, size |-> 6,
                        lines |-> <<"x", "y", "z">>]
      [] id = "E0"  -> [utf8 |-> TRUE, printable |-> TRUE, term |-> FALSE, size |-> 0,
                        lines |-> <<>>]

\* A file below a root: directory, name (stem, extension), content, and
\* whether open/read succeeds.
DiskFile(dir, stem, ext, content, readable) ==
    [dir |-> dir, name |-> <<stem, ext>>, content |-> content, readable |-> readable]

Roots == {"A", "B"}

Disk(root) ==
    IF root = "A"
    THEN { DiskFile("", "a", "txt", "X3", TRUE),
           DiskFile("", "b\\xFF", "txt", "X3", TRUE),
           DiskFile("", "d", "bin", "B1", TRUE),
           DiskFile("", "t", "csv", "T1", TRUE),
           DiskFile("", "u", "txt", "U6", FALSE) }
    ELSE IF root = "B"
    THEN { DiskFile("", "a", "txt", "W3", TRUE),
           DiskFile("sub", "a", "txt", "X3", TRUE),
           DiskFile("", "e", "bin", "B1n", TRUE),
           DiskFile("", "t", "csv", "T2", TRUE) }
    ELSE { DiskFile("", "c", "log", "W3", TRUE),
           DiskFile("", "z", "txt", "E0", FALSE) }

\* PathBuf of a file: root joined with the root-relative path.
PathOf(root, f) == <<root, f.dir, f.name>>

\* The file a path names (fs::File::open(path)).
FileAt(path) == CHOOSE f \in Disk(path[1]) : PathOf(path[1], f) = path

\* Path::file_name
file_name(path) == path[3]

\* The stems that are not valid UTF-8 (one file of root A has such a name).
NonUtf8Stems == {"b\\xFF"}

NoneName == [some |-> FALSE, v |-> <<"", "">>]

\* OsStr::to_str: None when the name is not valid UTF-8.
to_str(name) == IF name[1] \in NonUtf8Stems THEN NoneName ELSE [some |-> TRUE, v |-> name]

\* The root-relative part of a path.
RelPath(path) == <<path[2], path[3]>>

\* The directory listings a walk of root can yield: any order, each file
\* at most once, at most MaxFiles files.
Listings(root) ==
    { s \in UNION { [1..n -> Disk(root)] : n \in 0..MaxFiles } :
        \A i, j \in 1..Len(s) : i # j => s[i] # s[j] }

(***************************************************************************)
(* Indexer (src/index.rs is not among the sources; modelled from the       *)
(* design document, sections 3 and 4.1).                                   *)
(***************************************************************************)
TextExtensions == {"txt", "log", "md", "rs", "py", "json"}

\* FileType::is_structured
is_structured(file_type) == file_type \in {"Csv", "Tsv"}

\* Classification by extension with a sniff fallback; a file that cannot be
\* read is retained as Unknown.
ClassifyFile(f) ==
    LET ext == f.name[2] IN
    IF ~f.readable THEN "Unknown"
    ELSE IF ext = "csv" THEN "Csv"
    ELSE IF ext \in {"tsv", "tab"} THEN "Tsv"
    ELSE IF ext \in TextExtensions THEN "Text"
    ELSE IF Content(f.content).utf8 /\ Content(f.content).printable THEN "Text"
    ELSE "Binary"

\* The header row of a delimited line: its fields.
SplitFields(line) ==
    CASE line = "id,val" -> <<"id", "val">>
      [] line = "1,10"   -> <<"1", "10">>
      [] line = "2,20"   -> <<"2", "20">>
      [] line = "2,21"   -> <<"2", "21">>
      [] line = "3,30"   -> <<"3", "30">>
      [] line = "1,11"   -> <<"1", "11">>
      [] line = "2,x"    -> <<"2", "x">>
      [] OTHER           -> <<line>>

\* Text: the number of newline terminators; Csv/Tsv: the number of data
\* lines after the header; zero for files that cannot be read.
CountLines(f, file_type) ==
    LET c == Content(f.content)
        n == Len(c.lines)
    IN IF file_type = "Text" THEN (IF c.term \/ n = 0 THEN n ELSE n - 1)
       ELSE IF is_structured(file_type) THEN (IF n = 0 THEN 0 ELSE n - 1)
       ELSE 0

\* One FileEntry, content hash and fingerprints left unset.
IndexEntry(root, f) ==
    LET ft == ClassifyFile(f) IN
    [ path             |-> PathOf(root, f),
      size             |-> Content(f.content).size,
      file_type        |-> ft,
      extension        |-> f.name[2],
      content_hash     |-> "",
      simhash          |-> NoneSet,
      schema_signature |-> NoneSeq,
      line_count       |-> CountLines(f, ft),
      columns          |-> IF is_structured(ft) /\ Content(f.content).lines # <<>>
                           THEN Some(SplitFields(Content(f.content).lines[1]))
                           ELSE NoneSeq ]

\* index_path(root): the entries of a listing, in walk order.
index_path(root, listing) == [i \in 1..Len(listing) |-> IndexEntry(root, listing[i])]

(***************************************************************************)
(* Fingerprinter (fingerprint.rs)                                          *)
(***************************************************************************)
\* A total order on the strings the model uses (str::cmp, byte-wise).
StrRank(s) ==
    CASE s = ""    -> 0
      [] s = "1"   -> 1
      [] s = "10"  -> 2
      [] s = "11"  -> 3
      [] s = "2"   -> 4
      [] s = "20"  -> 5
      [] s = "21"  -> 6
      [] s = "3"   -> 7
      [] s = "30"  -> 8
      [] s = "id"  -> 9
      [] s = "val" -> 10
      [] s = "x"   -> 11
      [] s = "y"   -> 12
      [] OTHER     -> 13

RECURSIVE SortStrings(_)
\* Vec<String>::sort (ascending)
SortStrings(s) ==
    IF Len(s) <= 1 THEN s
    ELSE LET m == CHOOSE i \in 1..Len(s) :
                      \A j \in 1..Len(s) : StrRank(s[i]) <= StrRank(s[j])
             rest == [k \in 1..(Len(s) - 1) |-> IF k < m THEN s[k] ELSE s[k + 1]]
         IN <<s[m]>> \o SortStrings(rest)

\* The signature is a hash of the sorted, "|"-joined column names; the
\* hash is modelled by the sorted column list itself.
compute_schema_signature(columns) == SortStrings(columns)

\* compute_simhash is a 64-bit hash of the shingles of the normalised
\* lines; its value is the set of its 1-bits.  The hash of each line list
\* is fixed by this table (equal lines give equal fingerprints).
compute_simhash(lines) ==
    CASE lines = <<"x", "y", "z">>                    -> {}
      [] lines = <<"x", "y", "ww">>                   -> {0, 1, 2, 3}
      [] lines = <<"id,val", "1,10", "2,20">>         -> {0, 7}
      [] lines = <<"id,val", "1,10", "2,21", "3,30">> -> {0, 7, 9, 11, 13, 15, 17, 19, 21, 23}
      [] OTHER                                        -> {63}

\* hamming_distance(h1, h2) = (h1 ^ h2).count_ones()
hamming_distance(h1, h2) == Cardinality((h1 \ h2) \cup (h2 \ h1))

SimHashBits == 64

\* simhash_similarity(h1, h2) = 1.0 - distance / 64.0
simhash_similarity(h1, h2) ==
    Rat(SimHashBits - hamming_distance(h1, h2), SimHashBits)

\* Mutation of compute_fingerprint_for_entry: a file above the size limit is
\* skipped before it is hashed.
fingerprint_skipping_large(entry, max_file_size) ==
    LET f == FileAt(entry.path)
        c == Content(f.content)
    IN IF ~f.readable \/ c.size > max_file_size THEN entry
       ELSE IF entry.file_type \in {"Text", "Csv", "Tsv"}
       THEN [entry EXCEPT !.content_hash = f.content,
                          !.simhash = Some(compute_simhash(c.lines))]
       ELSE [entry EXCEPT !.content_hash = f.content]

\* compute_fingerprint_for_entry: on an I/O error the entry is left as the
\* indexer produced it (the caller only logs the error).
compute_fingerprint_for_entry(entry, max_file_size) ==
    LET f == FileAt(entry.path)
        c == Content(f.content)
        hashed == [entry EXCEPT !.content_hash = f.content]
        sig == IF entry.columns.some
               THEN Some(compute_schema_signature(entry.columns.v))
               ELSE entry.schema_signature
    IN IF ~f.readable THEN entry
       ELSE IF c.size > max_file_size
       THEN (IF entry.file_type \in {"Csv", "Tsv", "Excel"}
             THEN [hashed EXCEPT !.schema_signature = sig]
             ELSE hashed)
       ELSE CASE entry.file_type = "Text" ->
                   [hashed EXCEPT !.simhash = Some(compute_simhash(c.lines))]
              [] entry.file_type \in {"Csv", "Tsv"} ->
                   [hashed EXCEPT !.schema_signature = sig,
                                  !.simhash = Some(compute_simhash(c.lines))]
              [] entry.file_type = "Excel" ->
                   [hashed EXCEPT !.schema_signature = sig]
              [] OTHER -> hashed

\* compute_fingerprints: every entry independently.
compute_fingerprints(entries, max_file_size) ==
    [i \in 1..Len(entries) |-> compute_fingerprint_for_entry(entries[i], max_file_size)]

(***************************************************************************)
(* Matcher (match_files.rs)                                                *)
(***************************************************************************)
text_exts == {"txt", "log", "md", "rst", ""}

csv_exts == {"csv", "tsv", "tab"}

code_exts == {"rs", "py", "js", "ts", "java", "c", "cpp", "h", "hpp", "go"}

config_exts == {"json", "yaml", "yml", "toml", "ini", "cfg"}

extensions_compatible(ext1, ext2) ==
    \/ ext1 = ext2
    \/ \E group \in {text_exts, csv_exts, code_exts, config_exts} :
           ext1 \in group /\ ext2 \in group

\* Rule 2 is f1.size / f2.size < 0.1 or > 10.0, stated without division.
passes_blocking_rules(f1, f2) ==
    IF ~extensions_compatible(f1.extension, f2.extension) THEN FALSE
    ELSE IF f1.size > 0 /\ f2.size > 0
            /\ (10 * f1.size < f2.size \/ f1.size > 10 * f2.size) THEN FALSE
    ELSE IF f1.file_type = "Binary" /\ f2.file_type = "Binary" THEN TRUE
    ELSE IF f1.file_type = "Binary" \/ f2.file_type = "Binary" THEN FALSE
    ELSE TRUE

\* Mutation of hashes_equal: an empty hash is compared like any other.
hashes_equal_even_if_empty(f1, f2) == f1.content_hash = f2.content_hash

\* The hash test shared by estimate_similarity, match_by_path and
\* match_by_name: !f1.content_hash.is_empty() && f1.content_hash == f2.content_hash
hashes_equal(f1, f2) ==
    f1.content_hash # "" /\ f1.content_hash = f2.content_hash

\* Mutation of estimate_similarity: the schema rule is tried before the
\* SimHash rule.
estimate_schema_first(f1, f2) ==
    IF f1.content_hash # "" /\ f1.content_hash = f2.content_hash THEN One
    ELSE IF f1.schema_signature.some /\ f2.schema_signature.some
            /\ f1.schema_signature.v = f2.schema_signature.v
    THEN Rat(1, 2)
    ELSE IF f1.simhash.some /\ f2.simhash.some
    THEN simhash_similarity(f1.simhash.v, f2.simhash.v)
    ELSE IF f1.size > 0 /\ f2.size > 0
    THEN Rat(3 * Min(f1.size, f2.size), 10 * Max(f1.size, f2.size))
    ELSE Zero

estimate_similarity(f1, f2) ==
    IF hashes_equal(f1, f2) THEN One
    ELSE IF f1.simhash.some /\ f2.simhash.some
    THEN simhash_similarity(f1.simhash.v, f2.simhash.v)
    ELSE IF f1.schema_signature.some /\ f2.schema_signature.some
            /\ f1.schema_signature.v = f2.schema_signature.v
    THEN Rat(1, 2)
    ELSE IF f1.size > 0 /\ f2.size > 0
    THEN Rat(3 * Min(f1.size, f2.size), 10 * Max(f1.size, f2.size))
    ELSE Zero

CandidatePair(f1, f2, sim, exact) ==
    [file1 |-> f1, file2 |-> f2, estimated_similarity |-> sim, exact_hash_match |-> exact]

\* The pair match_by_path and match_by_name build for (f1, f2).
scored_pair(f1, f2) ==
    CandidatePair(f1, f2, estimate_similarity(f1, f2), hashes_equal(f1, f2))

\* The indices at which a list of keys holds the given key: the Vec a
\* HashMap key holds, in insertion order.
IndicesWhere(keys, k) == {i \in 1..Len(keys) : keys[i] = k}

\* The keys of the entries, in order.
PathKeys(files) == [i \in 1..Len(files) |-> files[i].path]

NameKeys(files) == [i \in 1..Len(files) |-> to_str(file_name(files[i].path))]

HashKeys(files) == [i \in 1..Len(files) |-> files[i].content_hash]

EntryName(f) == file_name(f.path)

\* map2 is keyed by the full path of the entry.
match_by_path(files1, files2) ==
    LET found(f1) == IndicesWhere(PathKeys(files2), f1.path)
        hit == {i \in 1..Len(files1) : found(files1[i]) # {}}
        pairOf(f1) ==
            \* a later insert of the same key replaces the earlier one
            scored_pair(f1, files2[CHOOSE j \in found(f1) : \A k \in found(f1) : k <= j])
        all == [i \in 1..Len(files1) |->
                   IF i \in hit THEN pairOf(files1[i]) ELSE scored_pair(files1[i], files1[i])]
    IN FilterSeq(all, hit)

RECURSIVE max_by_similarity(_, _)
\* Iterator::max_by: of several maximal elements the last one is returned.
max_by_similarity(f1, candidates) ==
    IF Len(candidates) = 1 THEN candidates[1]
    ELSE LET n == Len(candidates)
             x == max_by_similarity(f1, SubSeq(candidates, 1, n - 1))
             y == candidates[n]
         IN IF RatLt(estimate_similarity(f1, y), estimate_similarity(f1, x)) THEN x ELSE y

\* Entries without a UTF-8 file name are neither put into map2 nor looked up.
match_by_name(files1, files2) ==
    LET cands(f1) == IF to_str(EntryName(f1)).some
                     THEN FilterSeq(files2,
                              IndicesWhere(NameKeys(files2), to_str(EntryName(f1))))
                     ELSE <<>>
        hit == {i \in 1..Len(files1) : cands(files1[i]) # <<>>}
        all == [i \in 1..Len(files1) |->
                   IF i \in hit
                   THEN scored_pair(files1[i], max_by_similarity(files1[i], cands(files1[i])))
                   ELSE scored_pair(files1[i], files1[i])]
    IN FilterSeq(all, hit)

\* Mutation of unmatched_with_hash: the consumed set is not consulted.
with_hash_ignoring_consumed(files2, f1, matched_in_set2) ==
    IndicesWhere(HashKeys(files2), f1.content_hash)

\* The right entries a left entry may still take: those with its hash (the
\* Vec of hash_map2, in input order) whose path is not yet consumed.
unmatched_with_hash(files2, f1, matched_in_set2) ==
    {j \in IndicesWhere(HashKeys(files2), f1.content_hash) :
        files2[j].path \notin matched_in_set2}

RECURSIVE exact_loop(_, _, _, _)
\* The loop of find_exact_hash_matches over files1[i..]: pairs so far and
\* the paths of the right entries already consumed.
exact_loop(files1, files2, i, acc) ==
    IF i > Len(files1) THEN acc.pairs
    ELSE LET f1 == files1[i]
             free == unmatched_with_hash(files2, f1, acc.matched_in_set2)
         IN IF f1.content_hash # "" /\ free # {}
            THEN LET j == CHOOSE j \in free : \A k \in free : j <= k
                 IN exact_loop(files1, files2, i + 1,
                        [pairs |-> Append(acc.pairs,
                                          CandidatePair(f1, files2[j], One, TRUE)),
                         matched_in_set2 |-> acc.matched_in_set2 \cup {files2[j].path}])
            ELSE exact_loop(files1, files2, i + 1, acc)

find_exact_hash_matches(files1, files2) ==
    exact_loop(files1, files2, 1, [pairs |-> <<>>, matched_in_set2 |-> {}])

\* Mutation of sort_by_similarity_desc: the list is left as built.
keep_insertion_order(s) == s

RECURSIVE sort_by_similarity_desc(_)
\* slice::sort_by(|a, b| b.sim.partial_cmp(&a.sim)): stable, descending.
sort_by_similarity_desc(s) ==
    IF Len(s) <= 1 THEN s
    ELSE LET n == Len(s)
             front == sort_by_similarity_desc(SubSeq(s, 1, n - 1))
             x == s[n]
             k == Cardinality({i \in 1..(n - 1) :
                      RatLeq(x.estimated_similarity, front[i].estimated_similarity)})
         IN SubSeq(front, 1, k) \o <<x>> \o SubSeq(front, k + 1, n - 1)

\* Mutation of top_candidates: the first top_k passing entries are kept,
\* unsorted.
first_candidates(f1, files2, top_k) ==
    LET passing == FilterSeq(files2,
                       {j \in 1..Len(files2) : passes_blocking_rules(f1, files2[j])})
    IN [j \in 1..Min(top_k, Len(passing)) |->
           CandidatePair(f1, passing[j], estimate_similarity(f1, passing[j]), FALSE)]

\* The top-k pairs of one left entry.
top_candidates(f1, files2, top_k) ==
    LET passing == FilterSeq(files2,
                       {j \in 1..Len(files2) : passes_blocking_rules(f1, files2[j])})
        scored == [j \in 1..Len(passing) |->
                      CandidatePair(f1, passing[j], estimate_similarity(f1, passing[j]), FALSE)]
    IN Take(sort_by_similarity_desc(scored), top_k)

RECURSIVE find_similarity_matches(_, _, _)
find_similarity_matches(files1, files2, top_k) ==
    IF files1 = <<>> THEN <<>>
    ELSE top_candidates(Head(files1), files2, top_k)
             \o find_similarity_matches(Tail(files1), files2, top_k)

\* Mutation of unmatched_entries: matched entries are not filtered out.
all_entries(files, matched) == files

\* files.iter().filter(|f| !matched.contains(&f.path)).collect()
unmatched_entries(files, matched) ==
    FilterSeq(files, {i \in 1..Len(files) : files[i].path \notin matched})

all_vs_all_match(files1, files2, top_k, max_pairs) ==
    LET exact_matches == find_exact_hash_matches(files1, files2)
        matched_in_set1 == {exact_matches[i].file1.path : i \in 1..Len(exact_matches)}
        matched_in_set2 == {exact_matches[i].file2.path : i \in 1..Len(exact_matches)}
        unmatched1 == unmatched_entries(files1, matched_in_set1)
        unmatched2 == unmatched_entries(files2, matched_in_set2)
        all_pairs == exact_matches \o find_similarity_matches(unmatched1, unmatched2, top_k)
        sorted == sort_by_similarity_desc(all_pairs)
    IN IF max_pairs.some THEN Take(sorted, max_pairs.v) ELSE sorted

generate_candidates(files1, files2, config) ==
    CASE config.pairing = "SamePath" -> match_by_path(files1, files2)
      [] config.pairing = "SameName" -> match_by_name(files1, files2)
      [] config.pairing = "AllVsAll" ->
             all_vs_all_match(files1, files2, config.top_k, config.max_pairs)

(***************************************************************************)
(* Comparator: results                                                     *)
(* One record shape serves the four variants of ComparisonResult; kind is  *)
(* the variant tag.  file1_count/file2_count are the line counts (Text) or *)
(* row counts (Structured), common is common_lines or common_records.      *)
(***************************************************************************)
Ok(v) == [ok |-> TRUE, v |-> v, error |-> ""]

Err(msg) == [ok |-> FALSE, v |-> <<>>, error |-> msg]

ComparisonResult(kind, f1, f2, n1, n2, common, only1, only2, sim, mism, identical, error) ==
    [ kind                   |-> kind,
      file1_path             |-> f1.path,
      file2_path             |-> f2.path,
      file1_count            |-> n1,
      file2_count            |-> n2,
      common                 |-> common,
      only_in_file1          |-> only1,
      only_in_file2          |-> only2,
      similarity_score       |-> sim,
      total_field_mismatches |-> mism,
      identical              |-> identical,
      error                  |-> error ]

ErrorResult(f1, f2, msg) ==
    ComparisonResult("Error", f1, f2, 0, 0, 0, 0, 0, Zero, 0, FALSE, msg)

(***************************************************************************)
(* Comparator: text backend (compare_text.rs, fingerprint.rs)              *)
(***************************************************************************)
\* str::trim_end on the strings of the model
trim_end(s) == CASE s = "x " -> "x" [] s = " " -> "" [] OTHER -> s

\* split_whitespace().join(" ")
collapse_whitespace(s) == CASE s = "x " -> "x" [] s = " " -> "" [] OTHER -> s

\* str::to_lowercase
to_lowercase(s) == CASE s = "X" -> "x" [] s = "Y" -> "y" [] OTHER -> s

\* s.trim().is_empty()
is_blank(s) == s \in {"", " "}

normalize_line(s, opts) ==
    LET a == IF opts.ignore_trailing_ws THEN trim_end(s) ELSE s
        b == IF opts.ignore_all_ws THEN collapse_whitespace(a) ELSE a
    IN IF opts.ignore_case THEN to_lowercase(b) ELSE b

\* The lines kept after normalisation.
normalized_lines(norm, opts) ==
    FilterSeq(norm, {i \in 1..Len(norm) : ~(opts.skip_empty_lines /\ is_blank(norm[i]))})

\* The reader's outcome on a file.
read_lines_of(f, c, opts) ==
    IF ~f.readable THEN Err("cannot open file")
    ELSE IF ~c.utf8 THEN Err("stream did not contain valid UTF-8")
    ELSE Ok(normalized_lines([i \in 1..Len(c.lines) |-> normalize_line(c.lines[i], opts)],
                             opts))

\* read_normalized_lines: Err when the file cannot be opened or a line is
\* not valid UTF-8.
read_normalized_lines(path, opts) ==
    read_lines_of(FileAt(path), Content(FileAt(path).content), opts)

RECURSIVE lcs_length(_, _)
\* The number of Equal changes of a Myers diff of two line vectors: the
\* length of a longest common subsequence.
lcs_length(a, b) ==
    IF a = <<>> \/ b = <<>> THEN 0
    ELSE IF Head(a) = Head(b) THEN 1 + lcs_length(Tail(a), Tail(b))
    ELSE Max(lcs_length(Tail(a), b), lcs_length(a, Tail(b)))

\* SimilarityAlgorithm::Diff
diff_similarity(common_lines, only_in_file1, only_in_file2) ==
    LET total == common_lines + only_in_file1 + only_in_file2
    IN IF total > 0 THEN Rat(common_lines, total) ELSE One

\* The TextComparisonResult built from the counts of the diff.
text_result(file1, file2, n1, n2, common_lines) ==
    ComparisonResult("Text", file1, file2, n1, n2,
        common_lines, n1 - common_lines, n2 - common_lines,
        diff_similarity(common_lines, n1 - common_lines, n2 - common_lines),
        0, n1 - common_lines = 0 /\ n2 - common_lines = 0, "")

\* compare_text_files once both files were read: an Err is passed on.
compare_read_lines(file1, file2, r1, r2) ==
    IF ~r1.ok THEN Err(r1.error)
    ELSE IF ~r2.ok THEN Err(r2.error)
    ELSE Ok(text_result(file1, file2, Len(r1.v), Len(r2.v), lcs_length(r1.v, r2.v)))

compare_text_files(file1, file2, config) ==
    compare_read_lines(file1, file2,
        read_normalized_lines(file1.path, config.normalization),
        read_normalized_lines(file2.path, config.normalization))

(***************************************************************************)
(* Text backend: positions, detailed diff and unified diff                 *)
(* (compare_text.rs).  A String is a TLA+ string where only its length     *)
(* and content matter, and a sequence of one-character strings where it    *)
(* is parsed again (different_positions).                                  *)
(***************************************************************************)
Digits == <<"0", "1", "2", "3", "4", "5", "6", "7", "8", "9">>

RECURSIVE to_string(_)
\* usize::to_string: the decimal digits, most significant first.
to_string(n) ==
    IF n < 10 THEN <<Digits[n + 1]>>
    ELSE to_string(n \div 10) \o <<Digits[(n % 10) + 1]>>

\* Mutation of range_item: a single value is written as a range too.
range_item_always_pair(start, end) == to_string(start) \o <<"-">> \o to_string(end)

\* start.to_string() when the run is one value, format!("{}-{}", start, end) otherwise.
range_item(start, end) ==
    IF start = end THEN to_string(start)
    ELSE to_string(start) \o <<"-">> \o to_string(end)

RECURSIVE join(_, _)
\* [String]::join(sep)
join(items, sep) ==
    IF items = <<>> THEN <<>>
    ELSE IF Len(items) = 1 THEN items[1]
    ELSE items[1] \o <<sep>> \o join(Tail(items), sep)

RECURSIVE collect_ranges(_, _, _, _)
\* The loop of encode_ranges over positions[1..], with the run (start, end)
\* being extended and the items pushed so far; the last run is pushed at
\* the end.
collect_ranges(rest, start, end, ranges) ==
    IF rest = <<>> THEN Append(ranges, range_item(start, end))
    ELSE IF Head(rest) = end + 1
    THEN collect_ranges(Tail(rest), start, Head(rest), ranges)
    ELSE collect_ranges(Tail(rest), Head(rest), Head(rest),
             Append(ranges, range_item(start, end)))

encode_ranges(positions) ==
    IF positions = <<>> THEN <<>>
    ELSE join(collect_ranges(Tail(positions), positions[1], positions[1], <<>>), ",")

\* Path::display
display(path) ==
    path[1] \o "/" \o (IF path[2] = "" THEN "" ELSE path[2] \o "/")
        \o path[3][1] \o "." \o path[3][2]

Change(tag, value) == [tag |-> tag, value |-> value]

RECURSIVE diff_changes(_, _)
\* iter_all_changes of the Myers diff of two line vectors: a shortest edit
\* script, in order; where a deletion and an insertion are both possible
\* the deletion comes first.
diff_changes(a, b) ==
    IF a = <<>> THEN [i \in 1..Len(b) |-> Change("Insert", b[i])]
    ELSE IF b = <<>> THEN [i \in 1..Len(a) |-> Change("Delete", a[i])]
    ELSE IF Head(a) = Head(b)
    THEN <<Change("Equal", Head(a))>> \o diff_changes(Tail(a), Tail(b))
    ELSE IF lcs_length(Tail(a), b) >= lcs_length(a, Tail(b))
    THEN <<Change("Delete", Head(a))>> \o diff_changes(Tail(a), b)
    ELSE <<Change("Insert", Head(b))>> \o diff_changes(a, Tail(b))

RECURSIVE SortedSeq(_)
\* The elements of a finite set of integers, ascending.
SortedSeq(S) ==
    IF S = {} THEN <<>>
    ELSE LET m == CHOOSE x \in S : \A y \in S : x <= y
         IN <<m>> \o SortedSeq(S \ {m})

\* Mutation of changed_positions: only the deletions are recorded.
deleted_positions(changes) ==
    SortedSeq({i - 1 : i \in {k \in 1..Len(changes) : changes[k].tag = "Delete"}})

\* different_positions: the 0-based indices of the changes that are not Equal.
changed_positions(changes) ==
    SortedSeq({i - 1 : i \in {k \in 1..Len(changes) : changes[k].tag # "Equal"}})

\* The prefix a change is written with.
change_prefix(tag) ==
    CASE tag = "Delete" -> "-" [] tag = "Insert" -> "+" [] OTHER -> " "

\* One '-line' / '+line' entry appended: diff_bytes grows by the length of
\* the entry without its newline, the buffer by the entry and a newline
\* (a line read by BufRead::lines never ends with one).
push_line(acc, line) ==
    [acc EXCEPT !.text = @ \o line \o "\n", !.diff_bytes = @ + Len(line)]

RECURSIVE line_diff(_, _, _)
\* The loop over iter_all_changes that fills detailed_diff:
\* acc = [text, diff_bytes, truncated].
line_diff(changes, acc, max_diff_bytes) ==
    IF changes = <<>> THEN acc
    ELSE IF Head(changes).tag = "Equal"
    THEN line_diff(Tail(changes), acc, max_diff_bytes)
    ELSE IF acc.diff_bytes < max_diff_bytes
    THEN line_diff(Tail(changes),
             push_line(acc, change_prefix(Head(changes).tag) \o Head(changes).value),
             max_diff_bytes)
    ELSE line_diff(Tail(changes), [acc EXCEPT !.truncated = TRUE], max_diff_bytes)

ContextRadius == 3

\* The changes a unified diff shows: those within the context radius of a
\* change that is not Equal.
hunk_indices(changes) ==
    {i \in 1..Len(changes) :
        \E j \in 1..Len(changes) :
            /\ changes[j].tag # "Equal"
            /\ i - j <= ContextRadius
            /\ j - i <= ContextRadius}

\* The end of the maximal run of shown changes that starts at from.
hunk_end(shown, from) ==
    CHOOSE e \in shown : e >= from /\ (e + 1) \notin shown /\ from..e \subseteq shown

\* iter_hunks: the maximal runs of shown changes, as <<from, to>>, in order.
hunks_of(shown) ==
    LET starts == SortedSeq({i \in shown : (i - 1) \notin shown})
    IN [k \in 1..Len(starts) |-> <<starts[k], hunk_end(shown, starts[k])>>]

\* Display of a hunk range of the similar crate: the 1-based start, and the
\* length unless it is 1; an empty range starts one line earlier.
hunk_range(start, len) ==
    IF len = 1 THEN ToString(start + 1)
    ELSE ToString(IF len = 0 THEN start ELSE start + 1) \o "," \o ToString(len)

\* The number of changes of the given tags among changes[from..to].
count_tags(changes, from, to, tags) ==
    Cardinality({i \in from..to : changes[i].tag \in tags})

\* hunk.header(): "@@ -old +new @@"
hunk_header(changes, from, to) ==
    "@@ -" \o hunk_range(count_tags(changes, 1, from - 1, {"Equal", "Delete"}),
                         count_tags(changes, from, to, {"Equal", "Delete"}))
           \o " +"
           \o hunk_range(count_tags(changes, 1, from - 1, {"Equal", "Insert"}),
                         count_tags(changes, from, to, {"Equal", "Insert"}))
           \o " @@"

RECURSIVE write_changes(_, _, _)
\* The inner loop over the changes of one hunk: acc = [text, truncated].
write_changes(changes, acc, max_bytes) ==
    IF changes = <<>> THEN acc
    ELSE IF Len(acc.text) >= max_bytes THEN [acc EXCEPT !.truncated = TRUE]
    ELSE write_changes(Tail(changes),
             [acc EXCEPT !.text = @ \o change_prefix(Head(changes).tag)
                                      \o Head(changes).value \o "\n"],
             max_bytes)

RECURSIVE write_hunks(_, _, _, _)
\* The outer loop over the hunks.
write_hunks(hunks, changes, acc, max_bytes) ==
    IF hunks = <<>> THEN acc
    ELSE IF Len(acc.text) >= max_bytes THEN [acc EXCEPT !.truncated = TRUE]
    ELSE write_hunks(Tail(hunks), changes,
             write_changes(SubSeq(changes, Head(hunks)[1], Head(hunks)[2]),
                 [acc EXCEPT !.text = @ \o hunk_header(changes, Head(hunks)[1],
                                                       Head(hunks)[2]) \o "\n"],
                 max_bytes),
             max_bytes)

\* The truncation marker is appended after the loops.
close_unified_diff(acc) ==
    IF acc.truncated
    THEN [text |-> acc.text \o "\n... [diff truncated] ...\n", truncated |-> TRUE]
    ELSE acc

\* generate_unified_diff_from_slices on the change script of the two line
\* vectors: the two header lines are written before any check of max_bytes.
generate_unified_diff_from_slices(file1_name, file2_name, changes, max_bytes) ==
    close_unified_diff(
        write_hunks(hunks_of(hunk_indices(changes)), changes,
            [text |-> "--- " \o file1_name \o "\n" \o "+++ " \o file2_name \o "\n",
             truncated |-> FALSE],
            max_bytes))

\* The fields of the TextComparisonResult that hold the diff itself.
text_diff_fields(changes, line_acc, unified) ==
    [ different_positions |-> encode_ranges(changed_positions(changes)),
      detailed_diff       |-> IF unified.text = "" THEN line_acc.text ELSE unified.text,
      diff_truncated      |-> line_acc.truncated \/ unified.truncated ]

\* The TextComparisonResult of two line vectors: the counts and the score
\* (result), and the diff fields.
text_comparison(file1, file2, lines1, lines2, config) ==
    [ result |-> text_result(file1, file2, Len(lines1), Len(lines2),
                     lcs_length(lines1, lines2)),
      diff   |-> text_diff_fields(diff_changes(lines1, lines2),
                     line_diff(diff_changes(lines1, lines2),
                         [text |-> "", diff_bytes |-> 0, truncated |-> FALSE],
                         config.max_diff_bytes),
                     generate_unified_diff_from_slices(display(file1.path),
                         display(file2.path), diff_changes(lines1, lines2),
                         config.max_diff_bytes)) ]

\* compare_text_files with all its result fields, once both files were read.
compare_text_contents(file1, file2, r1, r2, config) ==
    IF ~r1.ok THEN Err(r1.error)
    ELSE IF ~r2.ok THEN Err(r2.error)
    ELSE Ok(text_comparison(file1, file2, r1.v, r2.v, config))

(***************************************************************************)
(* Comparator: structured backend (compare_structured.rs)                  *)
(***************************************************************************)
\* str::parse::<f64> on the strings of the model: Some(rational) or None.
parse_f64(s) ==
    CASE s = "1"  -> Some(Rat(1, 1))
      [] s = "2"  -> Some(Rat(2, 1))
      [] s = "3"  -> Some(Rat(3, 1))
      [] s = "1.0"  -> Some(Rat(1, 1))
      [] s = "1.00" -> Some(Rat(1, 1))
      [] s = "10" -> Some(Rat(10, 1))
      [] s = "11" -> Some(Rat(11, 1))
      [] s = "20" -> Some(Rat(20, 1))
      [] s = "21" -> Some(Rat(21, 1))
      [] s = "30" -> Some(Rat(30, 1))
      [] OTHER    -> [some |-> FALSE, v |-> Zero]

\* (n1 - n2).abs()
abs_diff(n1, n2) ==
    IF RatLeq(n2, n1) THEN Rat(n1.n * n2.d - n2.n * n1.d, n1.d * n2.d)
    ELSE Rat(n2.n * n1.d - n1.n * n2.d, n1.d * n2.d)

\* n1.abs().max(n2.abs()), for the non-negative numbers of the model
max_abs(n1, n2) == IF RatLeq(n1, n2) THEN n2 ELSE n1

\* diff <= tolerance, or max_val > 0.0 and diff / max_val <= tolerance
within_tolerance(diff, max_val, tolerance) ==
    \/ RatLeq(diff, tolerance)
    \/ /\ max_val.n > 0
       /\ RatLeq(Rat(diff.n * max_val.d, diff.d * max_val.n), tolerance)

\* The numeric branch of values_equal on the two parse results.
numbers_equal(p1, p2, tolerance) ==
    IF p1.some /\ p2.some
    THEN within_tolerance(abs_diff(p1.v, p2.v), max_abs(p1.v, p2.v), tolerance)
    ELSE FALSE

\* Mutation of values_equal: no string comparison before the numeric one.
numbers_only(val1, val2, tolerance) ==
    numbers_equal(parse_f64(val1), parse_f64(val2), tolerance)

values_equal(val1, val2, tolerance) ==
    IF val1 = val2 THEN TRUE
    ELSE numbers_equal(parse_f64(val1), parse_f64(val2), tolerance)

\* Position of the first header equal to k (0 when absent).
header_position(headers, k) ==
    IF \E i \in 1..Len(headers) : headers[i] = k
    THEN CHOOSE i \in 1..Len(headers) :
             headers[i] = k /\ \A j \in 1..(i - 1) : headers[j] # k
    ELSE 0

\* key_indices: the first column when no key is configured, else the
\* positions of the configured keys that occur in the header.
key_indices(headers, key_columns) ==
    IF key_columns = <<>> THEN <<1>>
    ELSE LET pos == [i \in 1..Len(key_columns) |-> header_position(headers, key_columns[i])]
         IN FilterSeq(pos, {i \in 1..Len(pos) : pos[i] # 0})

\* The composite key of a record: the fields at the key indices that the
\* record has ("|"-joined in the source; kept as the list of fields).
record_key(record, indices) ==
    LET present == FilterSeq(indices, {i \in 1..Len(indices) : indices[i] <= Len(record)})
    IN [i \in 1..Len(present) |-> record[present[i]]]

\* The KeyedRecord of every data row, in file order.
keyed_records(rows, idx) ==
    [i \in 1..Len(rows) |->
        [key |-> record_key(SplitFields(rows[i]), idx), record |-> SplitFields(rows[i])]]

\* The header and the keyed records of the lines of a delimited file.
parse_lines(lines, key_columns) ==
    IF lines = <<>> THEN [headers |-> <<>>, records |-> <<>>]
    ELSE [headers |-> SplitFields(Head(lines)),
          records |-> keyed_records(Tail(lines),
                          key_indices(SplitFields(Head(lines)), key_columns))]

\* The reader's outcome on a file: Err when it cannot be opened or read.
parse_file(f, c, key_columns) ==
    IF ~f.readable THEN Err("Failed to open")
    ELSE IF ~c.utf8 THEN Err("Failed to read headers")
    ELSE Ok(parse_lines(c.lines, key_columns))

\* parse_csv_into_sorted_vec: header and keyed records, in file order.
parse_csv_into_sorted_vec(path, key_columns) ==
    parse_file(FileAt(path), Content(FileAt(path).content), key_columns)

read_structured_records(path, file_type, key_columns) ==
    IF file_type = "Excel" THEN Err("Failed to open Excel file")
    ELSE IF file_type \in {"Csv", "Tsv"} THEN parse_csv_into_sorted_vec(path, key_columns)
    ELSE Err("Unsupported file type for structured comparison")

\* Mutation of key_cmp: every two keys compare equal.
keys_always_equal(k1, k2) == "Equal"

RECURSIVE key_cmp(_, _)
\* String::cmp of two keys: "Less", "Equal" or "Greater".
key_cmp(k1, k2) ==
    IF k1 = <<>> /\ k2 = <<>> THEN "Equal"
    ELSE IF k1 = <<>> THEN "Less"
    ELSE IF k2 = <<>> THEN "Greater"
    ELSE IF StrRank(Head(k1)) < StrRank(Head(k2)) THEN "Less"
    ELSE IF StrRank(Head(k1)) > StrRank(Head(k2)) THEN "Greater"
    ELSE key_cmp(Tail(k1), Tail(k2))

RECURSIVE sort_by_key(_)
\* par_sort_by(|a, b| a.key.cmp(&b.key)): stable, ascending.
sort_by_key(s) ==
    IF Len(s) <= 1 THEN s
    ELSE LET n == Len(s)
             front == sort_by_key(SubSeq(s, 1, n - 1))
             x == s[n]
             k == Cardinality({i \in 1..(n - 1) : key_cmp(front[i].key, x.key) # "Greater"})
         IN SubSeq(front, 1, k) \o <<x>> \o SubSeq(front, k + 1, n - 1)

\* The field at a header position: "" when the column or the field is absent.
field_at(record, idx) == IF idx # 0 /\ idx <= Len(record) THEN record[idx] ELSE ""

\* get_field_value
get_field_value(record, headers, col) == field_at(record, header_position(headers, col))

\* The columns of a common record pair whose values differ.
mismatching_columns(rec1, rec2, headers1, headers2, common_columns, config) ==
    {col \in common_columns :
        /\ col \notin SeqToSet(config.key_columns)
        /\ ~values_equal(get_field_value(rec1.record, headers1, col),
                         get_field_value(rec2.record, headers2, col),
                         config.numeric_tolerance)}

RECURSIVE merge_join(_, _, _, _, _, _)
\* The merge-join loop from (idx1, idx2) with the counts so far; acc.mism
\* holds one (record index, column) entry per FieldMismatch pushed; cx
\* carries the headers, the common columns and the configuration.
merge_join(records1, records2, idx1, idx2, acc, cx) ==
    IF idx1 <= Len(records1) /\ idx2 <= Len(records2)
    THEN LET c == key_cmp(records1[idx1].key, records2[idx2].key)
         IN CASE c = "Equal" ->
                    merge_join(records1, records2, idx1 + 1, idx2 + 1,
                        [acc EXCEPT !.common = @ + 1,
                                    !.mism = @ \cup
                                        {<<idx1, col>> :
                                            col \in mismatching_columns(records1[idx1],
                                                records2[idx2], cx.headers1, cx.headers2,
                                                cx.common_columns, cx.config)}],
                        cx)
              [] c = "Less" ->
                    merge_join(records1, records2, idx1 + 1, idx2,
                        [acc EXCEPT !.only1 = @ + 1], cx)
              [] c = "Greater" ->
                    merge_join(records1, records2, idx1, idx2 + 1,
                        [acc EXCEPT !.only2 = @ + 1], cx)
    ELSE [acc EXCEPT !.only1 = @ + (Len(records1) - (idx1 - 1)),
                     !.only2 = @ + (Len(records2) - (idx2 - 1))]

\* The StructuredComparisonResult built from the counts of the merge join.
structured_result(file1, file2, n1, n2, j) ==
    ComparisonResult("Structured", file1, file2, n1, n2, j.common, j.only1, j.only2,
        IF n1 + n2 - j.common > 0 THEN Rat(j.common, n1 + n2 - j.common) ELSE One,
        Cardinality(j.mism),
        j.only1 = 0 /\ j.only2 = 0 /\ Cardinality(j.mism) = 0, "")

\* Mutation of join_records: the ignored columns stay among the common ones.
join_without_ignoring(config, headers1, headers2, records1, records2) ==
    merge_join(records1, records2, 1, 1,
        [common |-> 0, only1 |-> 0, only2 |-> 0, mism |-> {}],
        [headers1 |-> headers1, headers2 |-> headers2,
         common_columns |-> SeqToSet(headers1) \cap SeqToSet(headers2),
         config |-> config])

\* The merge join of the two sorted record vectors, from their starts.
join_records(config, headers1, headers2, records1, records2) ==
    merge_join(records1, records2, 1, 1,
        [common |-> 0, only1 |-> 0, only2 |-> 0, mism |-> {}],
        [headers1 |-> headers1, headers2 |-> headers2,
         common_columns |-> (SeqToSet(headers1) \cap SeqToSet(headers2))
                                \ SeqToSet(config.ignore_columns),
         config |-> config])

\* The comparison of the two sorted record vectors.
compare_records(file1, file2, config, headers1, headers2, records1, records2) ==
    structured_result(file1, file2, Len(records1), Len(records2),
        join_records(config, headers1, headers2, records1, records2))

\* compare_structured_files once both files were read: an Err is passed on.
compare_read_records(file1, file2, config, r1, r2) ==
    IF ~r1.ok THEN Err(r1.error)
    ELSE IF ~r2.ok THEN Err(r2.error)
    ELSE Ok(compare_records(file1, file2, config, r1.v.headers, r2.v.headers,
                sort_by_key(r1.v.records), sort_by_key(r2.v.records)))

compare_structured_files(file1, file2, config) ==
    compare_read_records(file1, file2, config,
        read_structured_records(file1.path, file1.file_type, config.key_columns),
        read_structured_records(file2.path, file2.file_type, config.key_columns))

\* The Vec collected from iterating a HashSet: the elements of the set in
\* the iteration order of that set's hasher, which the program does not fix.
iter_order(S, order) == FilterSeq(order, {i \in 1..Len(order) : order[i] \in S})

\* HashSet::intersection iterates the smaller set (self when the sizes are
\* equal) and keeps what the other set contains.
intersection_order(columns1, columns2, order1, order2) ==
    IF Cardinality(columns1) <= Cardinality(columns2)
    THEN iter_order(columns1 \cap columns2, order1)
    ELSE iter_order(columns1 \cap columns2, order2)

\* The number of FieldMismatch entries pushed for a column.
mismatch_count(mism, col) == Cardinality({m \in mism : m[2] = col})

\* column_mismatches: one ColumnMismatch per common non-key column that has
\* mismatches, in the order of common_columns.
column_mismatches(common_columns, config, mism) ==
    LET kept == FilterSeq(common_columns,
                    {i \in 1..Len(common_columns) :
                        /\ common_columns[i] \notin SeqToSet(config.key_columns)
                        /\ mismatch_count(mism, common_columns[i]) > 0})
    IN [i \in 1..Len(kept) |->
           [column_name |-> kept[i], mismatch_count |-> mismatch_count(mism, kept[i])]]

\* The column fields of the StructuredComparisonResult; columns1 and
\* columns2 are the header sets without the ignored columns.
column_fields(columns1, columns2, config, mism, order1, order2) ==
    [ common_columns        |-> intersection_order(columns1, columns2, order1, order2),
      columns_only_in_file1 |-> iter_order(columns1 \ columns2, order1),
      columns_only_in_file2 |-> iter_order(columns2 \ columns1, order2),
      field_mismatches      |-> column_mismatches(
                                    intersection_order(columns1, columns2, order1, order2),
                                    config, mism) ]

\* The StructuredComparisonResult of two parsed files: the counts and the
\* score (result), and the column fields.
structured_comparison(file1, file2, config, p1, p2, order1, order2) ==
    [ result  |-> compare_records(file1, file2, config, p1.headers, p2.headers,
                      sort_by_key(p1.records), sort_by_key(p2.records)),
      columns |-> column_fields(
                      SeqToSet(p1.headers) \ SeqToSet(config.ignore_columns),
                      SeqToSet(p2.headers) \ SeqToSet(config.ignore_columns),
                      config,
                      join_records(config, p1.headers, p2.headers,
                          sort_by_key(p1.records), sort_by_key(p2.records)).mism,
                      order1, order2) ]

\* compare_structured_files with all its result fields, once both files
\* were read.
compare_structured_contents(file1, file2, config, r1, r2, order1, order2) ==
    IF ~r1.ok THEN Err(r1.error)
    ELSE IF ~r2.ok THEN Err(r2.error)
    ELSE Ok(structured_comparison(file1, file2, config, r1.v, r2.v, order1, order2))

(***************************************************************************)
(* Comparator: dispatch and identity (lib.rs)                              *)
(***************************************************************************)
auto_detect_mode(file1, file2) ==
    IF is_structured(file1.file_type) /\ is_structured(file2.file_type) THEN "Structured"
    ELSE IF file1.file_type = "Binary" \/ file2.file_type = "Binary" THEN "Text"
    ELSE "Text"

create_identical_result(file1, file2) ==
    IF file1.file_type = "Binary" \/ file2.file_type = "Binary"
    THEN ComparisonResult("HashOnly", file1, file2, file1.size, file2.size,
             0, 0, 0, One, 0, TRUE, "")
    ELSE IF is_structured(file1.file_type) /\ is_structured(file2.file_type)
    THEN ComparisonResult("Structured", file1, file2, file1.line_count, file2.line_count,
             file1.line_count, 0, 0, One, 0, TRUE, "")
    ELSE ComparisonResult("Text", file1, file2, file1.line_count, file2.line_count,
             file1.line_count, 0, 0, One, 0, TRUE, "")

\* Ok(result) is the result; Err(e) becomes ComparisonResult::Error.
wrap_result(pair, r) ==
    IF r.ok THEN r.v ELSE ErrorResult(pair.file1, pair.file2, r.error)

\* The backend a non-exact pair is given to, and its Result wrapped.
run_backend(pair, mode, config) ==
    wrap_result(pair,
        IF mode = "Structured"
        THEN compare_structured_files(pair.file1, pair.file2, config)
        ELSE compare_text_files(pair.file1, pair.file2, config))

\* Mutation of compare_pair: the exact_hash_match flag is not consulted.
always_run_backend(pair, config) ==
    run_backend(pair,
        IF config.mode = "Auto" THEN auto_detect_mode(pair.file1, pair.file2)
        ELSE config.mode,
        config)

compare_pair(pair, config) ==
    IF pair.exact_hash_match THEN create_identical_result(pair.file1, pair.file2)
    ELSE LET mode == IF config.mode = "Auto"
                     THEN auto_detect_mode(pair.file1, pair.file2)
                     ELSE config.mode
         IN run_backend(pair, mode, config)

\* Mutation of compare_all: the pairs whose backend failed are left out.
successful_only(candidates, config) ==
    SelectSeq([i \in 1..Len(candidates) |-> compare_pair(candidates[i], config)],
              LAMBDA r : r.kind # "Error")

\* candidates.par_iter().map(compare_pair).collect(): one result per pair,
\* in the order of the candidates.
compare_all(candidates, config) ==
    [i \in 1..Len(candidates) |-> compare_pair(candidates[i], config)]

(***************************************************************************)
(* ComparisonEngine::run as a state machine                                *)
(***************************************************************************)
VARIABLES
    pc,          \* the stage the run is about to execute
    config,      \* the CompareConfig the engine was built with
    path1,       \* the two input paths
    path2,
    files1,      \* the indexed (then fingerprinted) entries of each root
    files2,
    candidates,  \* the pairs the matcher returned
    results,     \* the results of the compare stage
    outcome,     \* what run returned: "none" while running, "Ok" or "Err"
    error,       \* the message of the error run returned ("" when none)
    events,      \* the calls made on the progress reporter so far (start / inc / finish)
    run_dir,     \* whether the run directory has been created
    response,    \* the CompareResponse of the desktop command, once built
    call,        \* the backend function called on its own, with its arguments
    ret,         \* what that call returned
    reporter,    \* the TauriProgressReporter: stage, total and current
    workers,     \* the compare-stage worker threads: position and locals
    collected,   \* the results the workers returned, in completion order
    emitted      \* the ProgressEvents emitted to the frontend so far

vars == <<pc, config, path1, path2, files1, files2, candidates, results, outcome,
          error, events, run_dir, response, call, ret, reporter, workers, collected,
          emitted>>

DefaultNormalization ==
    [ignore_eol |-> FALSE, ignore_trailing_ws |-> FALSE, ignore_all_ws |-> FALSE,
     ignore_case |-> FALSE, skip_empty_lines |-> FALSE]

Pairings == {"SamePath", "SameName", "AllVsAll"}

Modes == {"Auto", "Text", "Structured"}

TopKs == {1, 2}

MaxPairsOptions == {NoneInt, Some(0), Some(1)}

\* The configurations a run is started with; the options not listed keep
\* the values of CompareConfig::default.
Configs ==
    { [ pairing              |-> p,
        top_k                |-> k,
        max_pairs            |-> m,
        mode                 |-> md,
        key_columns          |-> <<>>,
        numeric_tolerance    |-> Rat(1, 10000),
        normalization        |-> DefaultNormalization,
        ignore_columns       |-> <<>>,
        max_fingerprint_size |-> 1024 ]
      : p \in Pairings, k \in TopKs, m \in MaxPairsOptions, md \in Modes }

\* An input path that names nothing on disk.
Missing == "M"

\* Path::exists
path_exists(p) == p \in Roots

\* p.start(total, message) / p.finish(message) as seen by the reporter
ProgressEvent(kind, message) == [kind |-> kind, message |-> message]

\* p.start(total, message)
StartEvent(total, message) == [kind |-> "start", total |-> total, message |-> message]

\* p.inc(delta)
IncEvent(delta) == [kind |-> "inc", delta |-> delta]

\* calculate_summary: the totals over the result set.
calculate_summary(rs, n1, n2) ==
    [ total_files_set1 |-> n1,
      total_files_set2 |-> n2,
      pairs_compared   |-> Len(rs),
      identical_pairs  |-> Cardinality({i \in 1..Len(rs) :
                               rs[i].kind # "Error" /\ rs[i].identical}),
      different_pairs  |-> Cardinality({i \in 1..Len(rs) :
                               rs[i].kind # "Error" /\ ~rs[i].identical}),
      error_pairs      |-> Cardinality({i \in 1..Len(rs) : rs[i].kind = "Error"}) ]

NoneSummary == [some |-> FALSE, v |-> calculate_summary(<<>>, 0, 0)]

NoneString == [some |-> FALSE, v |-> ""]

\* No CompareResponse yet.
NoResponse ==
    [built |-> FALSE, success |-> FALSE, summary |-> NoneSummary, results |-> <<>>,
     error |-> NoneString, results_dir |-> NoneString]

\* No backend function is called on its own during a run.
NoCall == [fn |-> "none"]

NoReturn == [returned |-> FALSE]

\* TauriProgressReporter::new
new_reporter == [stage |-> "", total |-> 0, current |-> 0]

\* No worker thread runs, nothing was emitted.
ProgressIdle ==
    /\ reporter = new_reporter
    /\ workers = <<>>
    /\ collected = <<>>
    /\ emitted = <<>>

Init ==
    /\ pc = "New"
    /\ config \in Configs
    /\ path1 \in {"A", Missing}
    /\ path2 \in Roots \cup {Missing}
    /\ files1 = <<>>
    /\ files2 = <<>>
    /\ candidates = <<>>
    /\ results = <<>>
    /\ outcome = "none"
    /\ error = ""
    /\ events = <<>>
    /\ run_dir = FALSE
    /\ response = NoResponse
    /\ call = NoCall
    /\ ret = NoReturn
    /\ ProgressIdle

\* run returns Err(msg): the partial work is dropped.
Fail(msg) ==
    /\ pc' = "Failed"
    /\ outcome' = "Err"
    /\ error' = msg
    /\ files1' = <<>>
    /\ files2' = <<>>
    /\ candidates' = <<>>
    /\ results' = <<>>
    /\ UNCHANGED <<config, path1, path2, response, call, ret,
                   reporter, workers, collected, emitted>>

\* ensure_results_dir / create_dir_all(output_root): the run directory is
\* created, or the creation fails and run returns.
Setup ==
    /\ pc = "New"
    /\ \/ /\ pc' = "Indexing"
          /\ run_dir' = TRUE
          /\ UNCHANGED <<config, path1, path2, files1, files2, candidates, results,
                         outcome, error, events, response, call, ret,
                   reporter, workers, collected, emitted>>
       \/ /\ Fail("Failed to create run directory")
          /\ UNCHANGED <<events, run_dir>>

\* Stage 1: the start event, then index_path on both paths; a path that
\* does not exist makes index_path, and with it run, return Err.  Indexing
\* the same root twice walks the same directory.
Index ==
    /\ pc = "Indexing"
    /\ events' = Append(events, StartEvent(0, "Indexing files..."))
    /\ IF ~path_exists(path1)
       THEN Fail("Failed to index path1") /\ UNCHANGED run_dir
       ELSE IF ~path_exists(path2)
       THEN Fail("Failed to index path2") /\ UNCHANGED run_dir
       ELSE /\ \E l1 \in Listings(path1), l2 \in Listings(path2) :
                  /\ path2 = path1 => l2 = l1
                  /\ files1' = index_path(path1, l1)
                  /\ files2' = index_path(path2, l2)
            /\ pc' = "Fingerprinting"
            /\ UNCHANGED <<config, path1, path2, candidates, results, outcome,
                           error, run_dir, response, call, ret,
                   reporter, workers, collected, emitted>>

\* Stage 2: compute_fingerprints on both sets.
Fingerprint ==
    /\ pc = "Fingerprinting"
    /\ files1' = compute_fingerprints(files1, config.max_fingerprint_size)
    /\ files2' = compute_fingerprints(files2, config.max_fingerprint_size)
    /\ events' = events \o <<StartEvent(Len(files1) + Len(files2), "Computing fingerprints..."),
                             IncEvent(Len(files1)),
                             ProgressEvent("finish", "Fingerprinting complete")>>
    /\ pc' = "Matching"
    /\ UNCHANGED <<config, path1, path2, candidates, results, outcome, error,
                   run_dir, response, call, ret,
                   reporter, workers, collected, emitted>>

\* Stage 3: generate_candidates.
Match ==
    /\ pc = "Matching"
    /\ candidates' = generate_candidates(files1, files2, config)
    /\ events' = Append(events, StartEvent(0, "Generating candidates..."))
    /\ pc' = "Comparing"
    /\ UNCHANGED <<config, path1, path2, files1, files2, results, outcome, error,
                   run_dir, response, call, ret,
                   reporter, workers, collected, emitted>>

\* Stage 4: compare every candidate pair.
Compare ==
    /\ pc = "Comparing"
    /\ results' = compare_all(candidates, config)
    /\ events' = events \o <<StartEvent(Len(candidates), "Comparing files...")>>
                      \o [i \in 1..Len(candidates) |-> IncEvent(1)]
                      \o <<ProgressEvent("finish", "Comparison complete")>>
    /\ pc' = "Summarising"
    /\ UNCHANGED <<config, path1, path2, files1, files2, candidates, outcome, error,
                   run_dir, response, call, ret,
                   reporter, workers, collected, emitted>>

\* Summary, then export_all and generate_html_report: either writer may
\* fail, and its error is what run returns.
Finish ==
    /\ pc = "Summarising"
    /\ \/ /\ pc' = "Done"
          /\ outcome' = "Ok"
          /\ UNCHANGED <<config, path1, path2, files1, files2, candidates, results,
                         error, events, run_dir, response, call, ret,
                   reporter, workers, collected, emitted>>
       \/ /\ Fail("Failed to export results")
          /\ UNCHANGED <<events, run_dir>>
       \/ /\ Fail("Failed to write HTML report")
          /\ UNCHANGED <<events, run_dir>>

Next == Setup \/ Index \/ Fingerprint \/ Match \/ Compare \/ Finish

Spec == Init /\ [][Next]_vars

(***************************************************************************)
(* The desktop command run_comparison (src-tauri/src/main.rs): the two     *)
(* paths are validated, the engine is run, and a CompareResponse is built. *)
(***************************************************************************)
\* A path below a directory validate_path refuses.
SystemDir == "/etc"

\* The path strings the UI hands over.
UiPaths == Roots \cup {Missing, "", SystemDir}

\* validate_path: the canonical path, or the message of the refusal.
validate_path(path_str) ==
    IF path_str = "" THEN Err("Path cannot be empty")
    ELSE IF ~(path_exists(path_str) \/ path_str = SystemDir)
    THEN Err("Path does not exist")
    ELSE IF path_str = SystemDir THEN Err("Access to system directories is not allowed")
    ELSE Ok(path_str)

\* ui_config_to_compare_config: the UI cannot set max_pairs.
ConfigsUi == {c \in Configs : ~c.max_pairs.some}

\* A failing arm that still reports where the results would have been.
failure_with_results_dir(message) ==
    [built |-> TRUE, success |-> FALSE, summary |-> NoneSummary, results |-> <<>>,
     error |-> Some(message), results_dir |-> Some("results")]

\* The response of every failing arm of run_comparison.
failure_response(message) ==
    [built |-> TRUE, success |-> FALSE, summary |-> NoneSummary, results |-> <<>>,
     error |-> Some(message), results_dir |-> NoneString]

\* The response of the Ok(Ok(results)) arm.
success_response(rs) ==
    [built |-> TRUE, success |-> TRUE, summary |-> Some(calculate_summary(rs, 0, 0)),
     results |-> rs, error |-> NoneString, results_dir |-> Some("results")]

InitUi ==
    /\ pc = "Validating"
    /\ config \in ConfigsUi
    /\ path1 \in {"A", Missing, "", SystemDir}
    /\ path2 \in UiPaths
    /\ files1 = <<>>
    /\ files2 = <<>>
    /\ candidates = <<>>
    /\ results = <<>>
    /\ outcome = "none"
    /\ error = ""
    /\ events = <<>>
    /\ run_dir = FALSE
    /\ response = NoResponse
    /\ call = NoCall
    /\ ret = NoReturn
    /\ ProgressIdle

\* validate_path on path1, then on path2: the first refusal is answered at
\* once, without running the engine.
Validate ==
    /\ pc = "Validating"
    /\ IF ~validate_path(path1).ok
       THEN /\ response' = failure_response(validate_path(path1).error)
            /\ pc' = "Responded"
       ELSE IF ~validate_path(path2).ok
       THEN /\ response' = failure_response(validate_path(path2).error)
            /\ pc' = "Responded"
       ELSE /\ pc' = "New"
            /\ UNCHANGED response
    /\ UNCHANGED <<config, path1, path2, files1, files2, candidates, results, outcome,
                   error, events, run_dir, call, ret,
                   reporter, workers, collected, emitted>>

\* The match on the engine's result.
Respond ==
    /\ pc \in {"Done", "Failed"}
    /\ response' = IF outcome = "Ok" THEN success_response(results)
                   ELSE failure_response(error)
    /\ pc' = "Responded"
    /\ UNCHANGED <<config, path1, path2, files1, files2, candidates, results, outcome,
                   error, events, run_dir, call, ret,
                   reporter, workers, collected, emitted>>

NextUi == Validate \/ Setup \/ Index \/ Fingerprint \/ Match \/ Compare \/ Finish \/ Respond

SpecUi == InitUi /\ [][NextUi]_vars

(***************************************************************************)
(* The backends called on their own: compare_text_files,                   *)
(* compare_structured_files, values_equal and encode_ranges, each on       *)
(* arguments drawn from bounded sets.  call holds the arguments, config    *)
(* the CompareConfig of the call, ret what the call returned.              *)
(***************************************************************************)
MaxLines == 2

MaxRows == 2

MaxPosition == 11

\* The lines of the text files compared.
TextLines == {"x", "X", "x ", " "}

TextLineVectors == UNION { [1..n -> TextLines] : n \in 0..MaxLines }

\* The data rows of the tables compared, below the header "id,val": a
\* repeated id, two numbers close to each other, a value that is no number.
TableRows == {"1,10", "1,11", "2,x"}

\* The tables: an empty file, the header alone, and the header with rows.
Tables ==
    {<<>>} \cup { <<"id,val">> \o rows :
                    rows \in UNION { [1..n -> TableRows] : n \in 0..MaxRows } }

ColumnNames == {"id", "val"}

\* The iteration orders a HashSet of column names can have.
HashOrders ==
    { o \in [1..Cardinality(ColumnNames) -> ColumnNames] :
        \A i, j \in 1..Cardinality(ColumnNames) : i # j => o[i] # o[j] }

\* A FileEntry as far as the backends read it.
BackendEntry(root, ext, file_type) ==
    [path |-> <<root, "", <<"f", ext>>>>, file_type |-> file_type]

\* A file that can be opened and holds valid UTF-8.
Readable == [readable |-> TRUE]

Utf8Content(lines) == [utf8 |-> TRUE, lines |-> lines]

NormalizationSettings ==
    [ignore_eol : BOOLEAN, ignore_trailing_ws : BOOLEAN, ignore_all_ws : BOOLEAN,
     ignore_case : BOOLEAN, skip_empty_lines : BOOLEAN]

DefaultMaxDiffBytes == 1048576

\* The CompareConfig of a backend call, as far as the backends read it.
BackendConfig(normalization, max_diff_bytes, key_columns, tolerance, ignore_columns) ==
    [ normalization     |-> normalization,
      max_diff_bytes    |-> max_diff_bytes,
      key_columns       |-> key_columns,
      numeric_tolerance |-> tolerance,
      ignore_columns    |-> ignore_columns ]

DefaultBackendConfig ==
    BackendConfig(DefaultNormalization, DefaultMaxDiffBytes, <<>>, Rat(1, 10000), <<>>)

MaxDiffBytesChoices == {0, 3, DefaultMaxDiffBytes}

\* Every normalisation setting, for a file compared with itself.
TextConfigs ==
    { BackendConfig(n, m, <<>>, Rat(1, 10000), <<>>) :
        n \in NormalizationSettings, m \in MaxDiffBytesChoices }

\* The default normalisation, for two different files.
DiffConfigs ==
    { BackendConfig(DefaultNormalization, m, <<>>, Rat(1, 10000), <<>>) :
        m \in MaxDiffBytesChoices }

\* No key, a key column with duplicate values, another key column, a key
\* name absent from the header.
KeyColumnChoices == {<<>>, <<"id">>, <<"val">>, <<"zz">>}

StructuredConfigs ==
    { BackendConfig(DefaultNormalization, DefaultMaxDiffBytes, k, t, i) :
        k \in KeyColumnChoices, t \in {Zero, Rat(1, 10)}, i \in {<<>>, <<"val">>} }

ToleranceConfigs ==
    { BackendConfig(DefaultNormalization, DefaultMaxDiffBytes, <<>>, t, <<>>) :
        t \in {Zero, Rat(1, 10000), Rat(1, 10)} }

\* A text file compared with itself.
SameTextCalls ==
    { [fn |-> "compare_text_files",
       file1 |-> BackendEntry("A", "txt", "Text"), lines1 |-> l,
       file2 |-> BackendEntry("A", "txt", "Text"), lines2 |-> l] : l \in TextLineVectors }

\* The file of root A compared with a file of root B.
TextCalls ==
    { [fn |-> "compare_text_files",
       file1 |-> BackendEntry("A", "txt", "Text"), lines1 |-> l1,
       file2 |-> BackendEntry("B", "txt", "Text"), lines2 |-> l2] :
         l1 \in TextLineVectors, l2 \in TextLineVectors }

StructuredCalls ==
    { [fn |-> "compare_structured_files",
       file1 |-> BackendEntry("A", "csv", "Csv"), lines1 |-> t,
       file2 |-> BackendEntry("A", "csv", "Csv"), lines2 |-> t] : t \in Tables }
    \cup
    { [fn |-> "compare_structured_files",
       file1 |-> BackendEntry("A", "csv", "Csv"), lines1 |-> t1,
       file2 |-> BackendEntry("B", "csv", "Csv"), lines2 |-> t2] :
         t1 \in Tables, t2 \in Tables }

ValueStrings == {"", "1", "1.0", "1.00", "10", "11", "x", "y"}

ValueCalls ==
    { [fn |-> "values_equal", val1 |-> a, val2 |-> b] :
        a \in ValueStrings, b \in ValueStrings }

\* The files of the three directories, each with its root.
DiskPaths == { PathOf(root, f) : root \in {"A", "B", "C"}, f \in Disk("A") \cup Disk("B") \cup Disk("C") }

AllPaths == { p \in DiskPaths : \E f \in Disk(p[1]) : PathOf(p[1], f) = p }

\* The size limits of the fingerprinter: below the text and table files,
\* and the default above every file.
MaxFingerprintSizes == {4, 1024}

ScoreCalls ==
    { [fn |-> "estimate_similarity", path1 |-> p1, path2 |-> p2, max_file_size |-> m] :
        p1 \in AllPaths, p2 \in AllPaths, m \in MaxFingerprintSizes }

\* The lists of at most n distinct paths out of S, in any order.
PathLists(S, n) ==
    { s \in UNION { [1..k -> S] : k \in 0..n } :
        \A i, j \in 1..Len(s) : i # j => s[i] # s[j] }

LeftPaths == { p \in AllPaths : p[1] = "A" }

RightPaths == { p \in AllPaths : p[1] = "B" }

SimilarityCalls ==
    { [fn |-> "find_similarity_matches", paths1 |-> l, paths2 |-> r, top_k |-> k,
       max_file_size |-> 1024] :
        l \in PathLists(LeftPaths, MaxLeft) \ {<<>>}, r \in PathLists(RightPaths, MaxRight),
        k \in TopKs }

\* The strictly ascending lists of positions up to MaxPosition.
RangeCalls ==
    { [fn |-> "encode_ranges", positions |-> SortedSeq(S)] : S \in SUBSET (0..MaxPosition) }

\* A function is about to be called on its own: no run is in progress.
BeforeCall ==
    /\ pc = "Call"
    /\ ret = NoReturn
    /\ ProgressIdle
    /\ path1 = "A"
    /\ path2 = "B"
    /\ files1 = <<>>
    /\ files2 = <<>>
    /\ candidates = <<>>
    /\ results = <<>>
    /\ outcome = "none"
    /\ error = ""
    /\ events = <<>>
    /\ run_dir = FALSE
    /\ response = NoResponse

\* The text backend called on its own.
InitText ==
    /\ \/ call \in SameTextCalls /\ config \in TextConfigs
       \/ call \in TextCalls /\ config \in DiffConfigs
    /\ BeforeCall

\* The structured backend called on its own.
InitStructured ==
    /\ call \in StructuredCalls /\ config \in StructuredConfigs
    /\ BeforeCall

\* The scoring and the similarity pass of the matcher called on their own.
InitMatch ==
    /\ \/ call \in ScoreCalls /\ config = DefaultBackendConfig
       \/ call \in SimilarityCalls /\ config = DefaultBackendConfig
    /\ BeforeCall

InitFn ==
    /\ pc = "Call"
    /\ \/ call \in SameTextCalls /\ config \in TextConfigs
       \/ call \in TextCalls /\ config \in DiffConfigs
       \/ call \in StructuredCalls /\ config \in StructuredConfigs
       \/ call \in ValueCalls /\ config \in ToleranceConfigs
       \/ call \in RangeCalls /\ config = DefaultBackendConfig
    /\ ret = NoReturn
    /\ ProgressIdle
    /\ path1 = "A"
    /\ path2 = "B"
    /\ files1 = <<>>
    /\ files2 = <<>>
    /\ candidates = <<>>
    /\ results = <<>>
    /\ outcome = "none"
    /\ error = ""
    /\ events = <<>>
    /\ run_dir = FALSE
    /\ response = NoResponse

\* What a first call returned.
Returned(out) == [returned |-> TRUE, out |-> out]

\* What a second call on the same files returned, next to what the first
\* call returned; ignored is the column added to ignore_columns in between
\* ("" when the configuration was left as it was).
ReturnedAgain(out, before, ignored) ==
    [returned |-> TRUE, out |-> out, before |-> before, ignored |-> ignored]

\* find_exact_hash_matches and estimate_similarity on two entries.
score_call(f1, f2) ==
    [file1 |-> f1, file2 |-> f2,
     exact |-> find_exact_hash_matches(<<f1>>, <<f2>>),
     similarity |-> estimate_similarity(f1, f2)]

\* compare_text_files on the two files of the call.
text_call(c, cfg) ==
    compare_text_contents(c.file1, c.file2,
        read_lines_of(Readable, Utf8Content(c.lines1), cfg.normalization),
        read_lines_of(Readable, Utf8Content(c.lines2), cfg.normalization),
        cfg)

\* compare_structured_files on the two files of the call, with the
\* iteration orders of its two column sets.
structured_call(c, cfg, order1, order2) ==
    compare_structured_contents(c.file1, c.file2, cfg,
        parse_file(Readable, Utf8Content(c.lines1), cfg.key_columns),
        parse_file(Readable, Utf8Content(c.lines2), cfg.key_columns),
        order1, order2)

BackendUnchanged ==
    UNCHANGED <<path1, path2, files1, files2, candidates, results, outcome, error,
                events, run_dir, response, call, reporter, workers, collected, emitted>>

CompareText ==
    /\ pc = "Call"
    /\ call.fn = "compare_text_files"
    /\ ret' = Returned(text_call(call, config))
    /\ pc' = "Returned"
    /\ UNCHANGED config
    /\ BackendUnchanged

CompareStructured ==
    /\ pc = "Call"
    /\ call.fn = "compare_structured_files"
    /\ \E order1 \in HashOrders, order2 \in HashOrders :
          ret' = Returned(structured_call(call, config, order1, order2))
    /\ pc' = "Returned"
    /\ UNCHANGED config
    /\ BackendUnchanged

\* The same comparison run a second time.
CompareStructuredAgain ==
    /\ pc = "Returned"
    /\ call.fn = "compare_structured_files"
    /\ \E order1 \in HashOrders, order2 \in HashOrders :
          ret' = ReturnedAgain(structured_call(call, config, order1, order2), ret.out, "")
    /\ pc' = "ReturnedAgain"
    /\ UNCHANGED config
    /\ BackendUnchanged

\* The same comparison run a second time with one more ignored column.
CompareStructuredIgnoring ==
    /\ pc = "Returned"
    /\ call.fn = "compare_structured_files"
    /\ \E col \in ColumnNames, order1 \in HashOrders, order2 \in HashOrders :
          /\ config' = [config EXCEPT !.ignore_columns = Append(@, col)]
          /\ ret' = ReturnedAgain(structured_call(call, config', order1, order2),
                                  ret.out, col)
    /\ pc' = "ReturnedIgnoring"
    /\ BackendUnchanged

ValuesEqual ==
    /\ pc = "Call"
    /\ call.fn = "values_equal"
    /\ ret' = Returned(values_equal(call.val1, call.val2, config.numeric_tolerance))
    /\ pc' = "Returned"
    /\ UNCHANGED config
    /\ BackendUnchanged

EncodeRanges ==
    /\ pc = "Call"
    /\ call.fn = "encode_ranges"
    /\ ret' = Returned(encode_ranges(call.positions))
    /\ pc' = "Returned"
    /\ UNCHANGED config
    /\ BackendUnchanged

\* The entry of a file as the indexer and the fingerprinter leave it.
fingerprinted(path, max_file_size) ==
    compute_fingerprint_for_entry(IndexEntry(path[1], FileAt(path)), max_file_size)

\* The two files are fingerprinted, looked up by exact hash and scored.
EstimateSimilarity ==
    /\ pc = "Call"
    /\ call.fn = "estimate_similarity"
    /\ ret' = Returned(score_call(fingerprinted(call.path1, call.max_file_size),
                                  fingerprinted(call.path2, call.max_file_size)))
    /\ pc' = "Returned"
    /\ UNCHANGED config
    /\ BackendUnchanged

\* The similarity pass over two lists of fingerprinted entries.
FindSimilarityMatches ==
    /\ pc = "Call"
    /\ call.fn = "find_similarity_matches"
    /\ ret' = Returned(find_similarity_matches(
                  [i \in 1..Len(call.paths1) |-> fingerprinted(call.paths1[i], call.max_file_size)],
                  [i \in 1..Len(call.paths2) |-> fingerprinted(call.paths2[i], call.max_file_size)],
                  call.top_k))
    /\ pc' = "Returned"
    /\ UNCHANGED config
    /\ BackendUnchanged

NextFn ==
    \/ CompareText
    \/ CompareStructured
    \/ CompareStructuredAgain
    \/ CompareStructuredIgnoring
    \/ ValuesEqual
    \/ EncodeRanges

SpecFn == InitFn /\ [][NextFn]_vars

\* The text backend alone, the structured backend alone, and the matcher's
\* scoring and similarity pass alone.
SpecText == InitText /\ [][CompareText]_vars

SpecStructured == InitStructured /\ [][CompareStructured]_vars

NextMatch ==
    \/ EstimateSimilarity
    \/ FindSimilarityMatches

SpecMatch == InitMatch /\ [][NextMatch]_vars

(***************************************************************************)
(* The compare stage with its worker threads and the progress reporter of  *)
(* the desktop shell (lib.rs 92-146, src-tauri main.rs 98-158).  The       *)
(* stages before it run on one thread; in the compare stage every worker   *)
(* takes pairs, compares them and calls inc(1), whose fetch_add and whose  *)
(* loads of total and current are separate atomic steps.                   *)
(***************************************************************************)
\* emit_progress: percentage = current / total * 100 when total > 0, else 0.
percentage(current, total) ==
    IF total > 0 THEN Rat(100 * current, total) ELSE Zero

\* The ProgressEvent emit_progress builds from the values it loaded.
emit_progress(total, current, stage) ==
    [ stage      |-> stage,
      message    |-> stage \o ": " \o ToString(current) \o "/" \o ToString(total),
      current    |-> current,
      total      |-> total,
      percentage |-> percentage(current, total) ]

\* Mutation of fetch_add: the counter is advanced twice.
fetch_add_twice(current, delta) == current + delta + delta

\* AtomicU64::fetch_add: the value stored.
fetch_add(current, delta) == current + delta

\* A call of the reporter on a thread that runs alone: s = [reporter, emitted].
emit_now(r, emitted_so_far) ==
    [reporter |-> r,
     emitted  |-> Append(emitted_so_far, emit_progress(r.total, r.current, r.stage))]

\* ProgressReporter::start
start(s, total, message) ==
    emit_now([stage |-> message, total |-> total, current |-> 0], s.emitted)

\* ProgressReporter::inc
inc(s, delta) ==
    emit_now([s.reporter EXCEPT !.current = fetch_add(@, delta)], s.emitted)

\* ProgressReporter::finish
finish(s, message) ==
    emit_now([stage |-> message, total |-> s.reporter.total, current |-> s.reporter.total],
             s.emitted)

\* The reporter calls of the stages before the compare stage, for n1 and n2
\* indexed files.
stages_before_compare(s, n1, n2) ==
    start(finish(inc(start(start(s, 0, "Indexing files..."),
                           n1 + n2, "Computing fingerprints..."),
                     n1),
                 "Fingerprinting complete"),
          0, "Generating candidates...")

\* The order in which the walk of a directory yields its files.
WalkOrder(root) ==
    IF root = "A"
    THEN << DiskFile("", "a", "txt", "X3", TRUE), DiskFile("", "t", "csv", "T1", TRUE),
            DiskFile("", "d", "bin", "B1", TRUE), DiskFile("", "b\\xFF", "txt", "X3", TRUE) >>
    ELSE << DiskFile("", "a", "txt", "W3", TRUE), DiskFile("", "t", "csv", "T2", TRUE),
            DiskFile("", "e", "bin", "B1n", TRUE), DiskFile("sub", "a", "txt", "X3", TRUE) >>

\* The entries of the first n files of a walk, fingerprinted.
walked(root, n, max_file_size) ==
    compute_fingerprints(index_path(root, Take(WalkOrder(root), n)), max_file_size)

\* The runs whose compare stage is followed: all-vs-all, one partner per
\* left entry, no cap.
CompareStageConfigs ==
    { c \in Configs : c.pairing = "AllVsAll" /\ c.top_k = 1 /\ c.max_pairs = NoneInt
                         /\ c.mode = "Auto" }

Workers == 1..MaxWorkers

IdleWorker == [pc |-> "idle", index |-> 0, total |-> 0, current |-> 0]

InitCompare ==
    /\ pc = "Indexing"
    /\ config \in CompareStageConfigs
    /\ path1 = "A"
    /\ path2 = "B"
    /\ files1 = <<>>
    /\ files2 = <<>>
    /\ candidates = <<>>
    /\ results = <<>>
    /\ outcome = "none"
    /\ error = ""
    /\ events = <<>>
    /\ run_dir = TRUE
    /\ response = NoResponse
    /\ call = NoCall
    /\ ret = NoReturn
    /\ ProgressIdle

CompareStageUnchanged ==
    UNCHANGED <<config, path1, path2, outcome, error, run_dir, response, call, ret>>

\* Stages 1 to 3 on the calling thread.
StagesBeforeCompare ==
    /\ pc = "Indexing"
    /\ \E n1 \in 0..MaxWalk, n2 \in 0..MaxWalk :
          /\ files1' = walked(path1, n1, config.max_fingerprint_size)
          /\ files2' = walked(path2, n2, config.max_fingerprint_size)
          /\ reporter' = stages_before_compare(
                             [reporter |-> reporter, emitted |-> emitted], n1, n2).reporter
          /\ emitted' = stages_before_compare(
                            [reporter |-> reporter, emitted |-> emitted], n1, n2).emitted
          /\ events' = events \o <<StartEvent(0, "Indexing files..."),
                                   StartEvent(n1 + n2, "Computing fingerprints..."),
                                   IncEvent(n1),
                                   ProgressEvent("finish", "Fingerprinting complete"),
                                   StartEvent(0, "Generating candidates...")>>
    /\ candidates' = generate_candidates(files1', files2', config)
    /\ pc' = "Comparing"
    /\ UNCHANGED <<results, workers, collected>>
    /\ CompareStageUnchanged

\* p.start(candidates.len(), "Comparing files..."), then the parallel
\* iterator hands the pairs to the workers.
StartComparing ==
    /\ pc = "Comparing"
    /\ reporter' = start([reporter |-> reporter, emitted |-> emitted],
                         Len(candidates), "Comparing files...").reporter
    /\ emitted' = start([reporter |-> reporter, emitted |-> emitted],
                        Len(candidates), "Comparing files...").emitted
    /\ events' = Append(events, StartEvent(Len(candidates), "Comparing files..."))
    /\ workers' = [w \in Workers |-> IdleWorker]
    /\ pc' = "ComparingPairs"
    /\ UNCHANGED <<files1, files2, candidates, results, collected>>
    /\ CompareStageUnchanged

\* The pairs no worker has taken yet.
Untaken ==
    (1..Len(candidates))
        \ ({ collected[k].index : k \in 1..Len(collected) }
              \cup { workers[w].index : w \in Workers })

WorkerUnchanged ==
    /\ UNCHANGED <<pc, files1, files2, candidates, results>>
    /\ CompareStageUnchanged

\* let result = self.compare_pair(pair)
ComparePair(w) ==
    /\ pc = "ComparingPairs"
    /\ workers[w].pc = "idle"
    /\ \E i \in Untaken :
          workers' = [workers EXCEPT ![w] =
                         [pc |-> "inc", index |-> i, total |-> 0, current |-> 0]]
    /\ UNCHANGED <<reporter, collected, emitted, events>>
    /\ WorkerUnchanged

\* inc(1): self.current.fetch_add(delta)
FetchAdd(w) ==
    /\ pc = "ComparingPairs"
    /\ workers[w].pc = "inc"
    /\ reporter' = [reporter EXCEPT !.current = fetch_add(@, 1)]
    /\ events' = Append(events, IncEvent(1))
    /\ workers' = [workers EXCEPT ![w].pc = "load_total"]
    /\ UNCHANGED <<collected, emitted>>
    /\ WorkerUnchanged

\* emit_progress: let total = self.total.load()
LoadTotal(w) ==
    /\ pc = "ComparingPairs"
    /\ workers[w].pc = "load_total"
    /\ workers' = [workers EXCEPT ![w].pc = "load_current", ![w].total = reporter.total]
    /\ UNCHANGED <<reporter, collected, emitted, events>>
    /\ WorkerUnchanged

\* emit_progress: let current = self.current.load()
LoadCurrent(w) ==
    /\ pc = "ComparingPairs"
    /\ workers[w].pc = "load_current"
    /\ workers' = [workers EXCEPT ![w].pc = "emit", ![w].current = reporter.current]
    /\ UNCHANGED <<reporter, collected, emitted, events>>
    /\ WorkerUnchanged

\* emit_progress: the stage is read under its lock and the event emitted;
\* the closure then returns the result of its pair.
Emit(w) ==
    /\ pc = "ComparingPairs"
    /\ workers[w].pc = "emit"
    /\ emitted' = Append(emitted,
                      emit_progress(workers[w].total, workers[w].current, reporter.stage))
    /\ collected' = Append(collected,
                        [index  |-> workers[w].index,
                         result |-> compare_pair(candidates[workers[w].index], config)])
    /\ workers' = [workers EXCEPT ![w] = IdleWorker]
    /\ UNCHANGED <<reporter, events>>
    /\ WorkerUnchanged

\* Mutation of collect: the results are kept in the order the workers
\* returned them.
collect_in_completion_order(done, n) == [i \in 1..n |-> done[i].result]

\* collect() of an indexed parallel iterator: the result of pair i is item i.
collect(done, n) ==
    [i \in 1..n |-> (CHOOSE d \in SeqToSet(done) : d.index = i).result]

\* Every pair was compared: collect() returns, then
\* p.finish("Comparison complete").
FinishComparing ==
    /\ pc = "ComparingPairs"
    /\ Len(collected) = Len(candidates)
    /\ results' = collect(collected, Len(candidates))
    /\ reporter' = finish([reporter |-> reporter, emitted |-> emitted],
                          "Comparison complete").reporter
    /\ emitted' = finish([reporter |-> reporter, emitted |-> emitted],
                         "Comparison complete").emitted
    /\ events' = Append(events, ProgressEvent("finish", "Comparison complete"))
    /\ pc' = "Summarising"
    /\ UNCHANGED <<files1, files2, candidates, workers, collected>>
    /\ CompareStageUnchanged

NextCompare ==
    \/ StagesBeforeCompare
    \/ StartComparing
    \/ \E w \in Workers : ComparePair(w)
    \/ \E w \in Workers : FetchAdd(w)
    \/ \E w \in Workers : LoadTotal(w)
    \/ \E w \in Workers : LoadCurrent(w)
    \/ \E w \in Workers : Emit(w)
    \/ FinishComparing

SpecCompare == InitCompare /\ [][NextCompare]_vars

(***************************************************************************)
(* Properties                                                              *)
(***************************************************************************)
\* candidates holds what generate_candidates returned.
Matched == pc \in {"Comparing", "Summarising", "Done"}

\* results holds what the compare stage collected.
Compared == pc \in {"Summarising", "Done"}

IndexOfPath(files, path) == CHOOSE i \in 1..Len(files) : files[i].path = path

\* The exact-hash pairs of the candidate list, in list order.
ExactPairs == FilterSeq(candidates, {i \in 1..Len(candidates) : candidates[i].exact_hash_match})

\* C1: under every pairing strategy, when max_pairs is set the candidate
\* list holds at most max_pairs pairs.
C1_MaxPairsCapsEveryStrategy ==
    (Matched /\ config.max_pairs.some) => Len(candidates) <= config.max_pairs.v

\* C2: in all-vs-all the exact-hash pairing is 1:1 (no left and no right
\* entry in two exact pairs); left entries are served in input order, each
\* taking the first right entry with its hash that no earlier pair took, and
\* a left entry stays unpaired only when no such right entry is left.
C2_ExactPassOneToOne ==
    (Matched /\ config.pairing = "AllVsAll") =>
        LET ex == ExactPairs
            taken(k) == {ex[m].file2.path : m \in 1..(k - 1)}
        IN /\ \A i, j \in 1..Len(ex) :
                  i # j => /\ ex[i].file1.path # ex[j].file1.path
                           /\ ex[i].file2.path # ex[j].file2.path
           /\ ~config.max_pairs.some =>
                 /\ \A i, j \in 1..Len(ex) :
                        i < j => IndexOfPath(files1, ex[i].file1.path)
                                     < IndexOfPath(files1, ex[j].file1.path)
                 /\ \A k \in 1..Len(ex) :
                        /\ ex[k].file1.content_hash # ""
                        /\ ex[k].file2.content_hash = ex[k].file1.content_hash
                        /\ \A j \in 1..Len(files2) :
                               (/\ files2[j].content_hash = ex[k].file1.content_hash
                                /\ files2[j].path \notin taken(k))
                               => IndexOfPath(files2, ex[k].file2.path) <= j
                 /\ \A i \in 1..Len(files1) :
                        (/\ files1[i].content_hash # ""
                         /\ \A k \in 1..Len(ex) : ex[k].file1.path # files1[i].path)
                        => \A j \in 1..Len(files2) :
                               files2[j].content_hash = files1[i].content_hash
                               => \E k \in 1..Len(ex) : ex[k].file2.path = files2[j].path

\* C2 witness: two exact pairs whose four entries all share one hash, the
\* second left entry having skipped the right entry the first one took.
C2_Witness ==
    /\ Matched /\ config.pairing = "AllVsAll" /\ ~config.max_pairs.some
    /\ Len(ExactPairs) = 2
    /\ ExactPairs[1].file1.content_hash = ExactPairs[2].file1.content_hash
    /\ IndexOfPath(files2, ExactPairs[2].file2.path) = 2

\* C3: the all-vs-all list is ordered by estimated similarity,
\* non-increasing, and max_pairs cuts it after the sort: every pair that
\* was cut scores no higher than any pair that was kept.
C3_SortedThenTruncated ==
    (Matched /\ config.pairing = "AllVsAll") =>
        LET full == all_vs_all_match(files1, files2, config.top_k, NoneInt)
        IN /\ \A i \in 1..(Len(candidates) - 1) :
                  RatLeq(candidates[i + 1].estimated_similarity,
                         candidates[i].estimated_similarity)
           /\ SeqToSet(candidates) \subseteq SeqToSet(full)
           /\ Len(candidates) = IF config.max_pairs.some
                                THEN Min(config.max_pairs.v, Len(full)) ELSE Len(full)
           /\ \A p \in SeqToSet(full) \ SeqToSet(candidates) :
                  \A q \in SeqToSet(candidates) :
                      RatLeq(p.estimated_similarity, q.estimated_similarity)

\* C3 witness: an exact pair listed before a similarity pair of strictly
\* lower score that was produced before it would have been appended.
C3_Witness ==
    /\ Matched /\ config.pairing = "AllVsAll"
    /\ Len(candidates) = 2
    /\ candidates[1].exact_hash_match /\ ~candidates[2].exact_hash_match
    /\ RatLt(candidates[2].estimated_similarity, candidates[1].estimated_similarity)
    /\ IndexOfPath(files1, candidates[2].file1.path)
           < IndexOfPath(files1, candidates[1].file1.path)

\* C4 (as stated): in all-vs-all, one file on each side with equal
\* non-empty hashes and different names gives exactly one pair, exact, 1.0.
C4_OneFileEachSideGivesOnePair ==
    (/\ Matched /\ config.pairing = "AllVsAll"
     /\ Len(files1) = 1 /\ Len(files2) = 1
     /\ hashes_equal(files1[1], files2[1])
     /\ EntryName(files1[1]) # EntryName(files2[1]))
    => candidates = <<CandidatePair(files1[1], files2[1], One, TRUE)>>

\* C4 (amended): in all-vs-all an entry of an exact-hash pair is in no pair
\* with exact_hash_match = false; and one file on each side with equal
\* non-empty hashes and different names gives exactly one pair, exact and
\* 1.0, unless max_pairs is 0.
C4_ExactEntriesSkipSimilarityPass ==
    (Matched /\ config.pairing = "AllVsAll") =>
        LET ex == find_exact_hash_matches(files1, files2)
            left == {ex[k].file1.path : k \in 1..Len(ex)}
            right == {ex[k].file2.path : k \in 1..Len(ex)}
        IN /\ \A i \in 1..Len(candidates) :
                  ~candidates[i].exact_hash_match
                  => /\ candidates[i].file1.path \notin left
                     /\ candidates[i].file2.path \notin right
           /\ (/\ Len(files1) = 1 /\ Len(files2) = 1
               /\ hashes_equal(files1[1], files2[1])
               /\ EntryName(files1[1]) # EntryName(files2[1])
               /\ (config.max_pairs.some => config.max_pairs.v >= 1))
              => candidates = <<CandidatePair(files1[1], files2[1], One, TRUE)>>

\* C4 witness: the same content under two names, one file on each side,
\* matched all-vs-all into its single exact pair.
C4_Witness ==
    /\ Matched /\ config.pairing = "AllVsAll"
    /\ Len(files1) = 1 /\ Len(files2) = 1
    /\ hashes_equal(files1[1], files2[1])
    /\ EntryName(files1[1]) # EntryName(files2[1])
    /\ Len(candidates) = 1 /\ candidates[1].exact_hash_match

\* C5: same-path pairs exactly the files whose root-relative paths are
\* equal, whatever the two roots are.
C5_SamePathPairsEqualRelativePaths ==
    (Matched /\ config.pairing = "SamePath") =>
        \A i \in 1..Len(files1), j \in 1..Len(files2) :
            RelPath(files1[i].path) = RelPath(files2[j].path)
            <=> \E k \in 1..Len(candidates) :
                    /\ candidates[k].file1.path = files1[i].path
                    /\ candidates[k].file2.path = files2[j].path

\* C6: same-name emits exactly one pair for every left file whose basename
\* occurs on the right, its right file has that basename and a maximal
\* estimated similarity among the right files with that basename; a left
\* file whose basename does not occur on the right is in no pair.
C6_SameNamePicksBest ==
    (Matched /\ config.pairing = "SameName") =>
        \A i \in 1..Len(files1) :
            LET same == {j \in 1..Len(files2) : EntryName(files2[j]) = EntryName(files1[i])}
                mine == {k \in 1..Len(candidates) : candidates[k].file1.path = files1[i].path}
            IN IF same = {} THEN mine = {}
               ELSE /\ Cardinality(mine) = 1
                    /\ \A k \in mine :
                        /\ \E j \in same : files2[j] = candidates[k].file2
                        /\ candidates[k].estimated_similarity
                               = estimate_similarity(files1[i], candidates[k].file2)
                        /\ \A j \in same :
                               RatLeq(estimate_similarity(files1[i], files2[j]),
                                      candidates[k].estimated_similarity)

\* C7: a pair with exact_hash_match = true gets the synthesised identical
\* result whatever the mode is: HashOnly for a binary pair, Structured for
\* two tabular files (common_records = the row count, no records on one
\* side only, no field mismatches, similarity 1.0), Text otherwise.
C7_ExactPairsAreSynthesised ==
    Compared =>
        \A i \in 1..Len(candidates) :
            candidates[i].exact_hash_match =>
                LET f1 == candidates[i].file1
                    f2 == candidates[i].file2
                    r == results[i]
                    binary == f1.file_type = "Binary" \/ f2.file_type = "Binary"
                    tabular == is_structured(f1.file_type) /\ is_structured(f2.file_type)
                IN /\ r.identical
                   /\ r.file1_path = f1.path /\ r.file2_path = f2.path
                   /\ binary => r.kind = "HashOnly"
                   /\ (~binary /\ tabular) =>
                          /\ r.kind = "Structured"
                          /\ r.common = r.file1_count
                          /\ r.file1_count = f1.line_count
                          /\ r.only_in_file1 = 0 /\ r.only_in_file2 = 0
                          /\ r.total_field_mismatches = 0
                          /\ r.similarity_score = One
                   /\ (~binary /\ ~tabular) => r.kind = "Text"

\* C7 witness: under mode Structured, where the backend rejects text
\* files, an exact pair of text files has its identical Text result.
C7_Witness ==
    /\ Compared /\ config.mode = "Structured"
    /\ \E i \in 1..Len(candidates) :
          /\ candidates[i].exact_hash_match
          /\ candidates[i].file1.file_type = "Text"
          /\ candidates[i].file1.path # candidates[i].file2.path
          /\ results[i].kind = "Text" /\ results[i].identical

\* C8: a binary file compared to itself gives HashOnly, identical = true;
\* compared to another binary file of a different content hash it gives a
\* result with identical = false.
C8_BinaryPairs ==
    Compared =>
        \A i \in 1..Len(candidates) :
            LET f1 == candidates[i].file1
                f2 == candidates[i].file2
            IN (f1.file_type = "Binary" /\ f2.file_type = "Binary") =>
                   /\ f1.path = f2.path =>
                          results[i].kind = "HashOnly" /\ results[i].identical
                   /\ f1.content_hash # f2.content_hash => ~results[i].identical

\* C9: two text files of equal content give a Text result, identical,
\* similarity 1.0, whose common_lines is the number of lines of the file
\* (3 for "x\ny\nz").
C9_CommonLinesIsLineCount ==
    Compared =>
        \A i \in 1..Len(candidates) :
            LET f1 == candidates[i].file1
                f2 == candidates[i].file2
            IN (/\ f1.file_type = "Text" /\ f2.file_type = "Text"
                /\ FileAt(f1.path).content = FileAt(f2.path).content) =>
                   /\ results[i].kind = "Text"
                   /\ results[i].identical
                   /\ results[i].similarity_score = One
                   /\ results[i].common = Len(Content(FileAt(f1.path).content).lines)

\* The backend the pair is given to cannot read or does not support one of
\* the two files.
BackendFails(pair) ==
    LET mode == IF config.mode = "Auto"
                THEN (IF is_structured(pair.file1.file_type)
                         /\ is_structured(pair.file2.file_type)
                      THEN "Structured" ELSE "Text")
                ELSE config.mode
        unreadable(f) == ~FileAt(f.path).readable
        unsupported(f) == mode = "Structured" /\ ~is_structured(f.file_type)
    IN /\ ~pair.exact_hash_match
       /\ \/ unreadable(pair.file1) \/ unreadable(pair.file2)
          \/ unsupported(pair.file1) \/ unsupported(pair.file2)

\* C10: the compare stage yields one result per candidate pair, in order
\* and carrying the pair's two paths; a pair whose backend fails gets an
\* Error result with a message, and the stage itself never fails the run.
C10_BackendFailureIsAResult ==
    /\ [][pc = "Comparing" => (pc' = "Summarising" /\ outcome' = outcome)]_vars
    /\ [](Compared =>
            /\ Len(results) = Len(candidates)
            /\ \A i \in 1..Len(candidates) :
                  /\ results[i].file1_path = candidates[i].file1.path
                  /\ results[i].file2_path = candidates[i].file2.path
                  /\ BackendFails(candidates[i]) =>
                         results[i].kind = "Error" /\ results[i].error # "")

\* C10 witness: a run that returned Ok with two results, one of them the
\* Error result of a failed backend and the other one not an Error.
C10_Witness ==
    /\ pc = "Done" /\ outcome = "Ok"
    /\ Len(results) = 2
    /\ \E i, j \in 1..2 :
          /\ BackendFails(candidates[i])
          /\ results[i].kind = "Error"
          /\ results[j].kind # "Error"

\* The errors of the setup: the results directory cannot be created, or an
\* input path is missing.
SetupErrors ==
    {"Failed to create run directory", "Failed to index path1", "Failed to index path2"}

\* C11: run returns a top-level error only for a setup failure; after the
\* setup no failure of a later step (exporting and report writing
\* included) makes run return Err.
C11_OnlySetupErrorsAbort ==
    outcome = "Err" => error \in SetupErrors

\* C12: when an input path does not exist, no progress event of the indexing
\* stage is emitted and no run directory is created, and a run that has
\* ended has returned an error message.
C12_MissingPathFailsBeforeStage1 ==
    (~path_exists(path1) \/ ~path_exists(path2)) =>
        /\ events = <<>>
        /\ ~run_dir
        /\ pc \in {"Done", "Failed"} => (outcome = "Err" /\ error # "")

\* C13: every CompareResponse is either a success (no error, a summary) or
\* a failure (an error, no results, no summary, no results_dir).
C13_ResponseIsResultsOrError ==
    response.built =>
        /\ response.success => (~response.error.some /\ response.summary.some)
        /\ ~response.success =>
              /\ response.error.some
              /\ response.results = <<>>
              /\ ~response.summary.some
              /\ ~response.results_dir.some

\* C13 witness: a failure response after an engine error that followed
\* results having been computed (the report could not be written).
C13_Witness ==
    /\ response.built /\ ~response.success
    /\ response.error.v = "Failed to write HTML report"

\* A backend call of the given function has returned (first call).
HasReturned(fn) == pc = "Returned" /\ call.fn = fn

\* The call compares a file with itself.
SameFile == call.file1 = call.file2 /\ call.lines1 = call.lines2

\* C14: the text backend applied to (F, F), for every text file F and every
\* normalisation setting, returns identical = true, similarity 1.0 and an
\* empty detailed_diff.
C14_SameTextFileIsIdentical ==
    (HasReturned("compare_text_files") /\ SameFile) =>
        /\ ret.out.ok
        /\ ret.out.v.result.identical
        /\ ret.out.v.result.similarity_score = One
        /\ ret.out.v.diff.detailed_diff = ""

\* C15: detailed_diff is never longer than max_diff_bytes bytes.
C15_MaxDiffBytesIsAHardCap ==
    (HasReturned("compare_text_files") /\ ret.out.ok) =>
        Len(ret.out.v.diff.detailed_diff) <= config.max_diff_bytes

\* The number of data rows of a table given by its lines.
DataRows(lines) == IF lines = <<>> THEN 0 ELSE Len(lines) - 1

\* C16: the structured backend applied to (T, T), for every table T and
\* every choice of key columns, returns identical = true, common_records =
\* the number of data rows, only_in_file1 = only_in_file2 = 0 and
\* total_field_mismatches = 0.
C16_SameTableIsIdentical ==
    (HasReturned("compare_structured_files") /\ SameFile) =>
        /\ ret.out.ok
        /\ ret.out.v.result.identical
        /\ ret.out.v.result.common = DataRows(call.lines1)
        /\ ret.out.v.result.only_in_file1 = 0
        /\ ret.out.v.result.only_in_file2 = 0
        /\ ret.out.v.result.total_field_mismatches = 0

\* C16 witness: a table whose two rows have the same key, compared with
\* itself on the key column id.
C16_Witness ==
    /\ HasReturned("compare_structured_files") /\ SameFile
    /\ call.lines1 = <<"id,val", "1,10", "1,11">>
    /\ config.key_columns = <<"id">>
    /\ config.ignore_columns = <<>>
    /\ ret.out.v.result.common = 2

\* C17: with numeric tolerance 0, values_equal(a, b, 0) = (a = b) for all
\* strings a and b.
C17_ZeroToleranceIsStringEquality ==
    (HasReturned("values_equal") /\ config.numeric_tolerance = Zero) =>
        ret.out = (call.val1 = call.val2)

\* The mismatch_count a result reports for a column (0 when the column has
\* no ColumnMismatch).
ReportedMismatches(out, col) ==
    LET fm == out.v.columns.field_mismatches
    IN IF \E i \in 1..Len(fm) : fm[i].column_name = col
       THEN (CHOOSE m \in SeqToSet(fm) : m.column_name = col).mismatch_count
       ELSE 0

\* The column added to ignore_columns is a common column and no key column.
IgnoredCommonNonKey ==
    /\ pc = "ReturnedIgnoring"
    /\ ret.out.ok /\ ret.before.ok
    /\ ret.ignored \in SeqToSet(SplitFields(call.lines1[1]))
    /\ ret.ignored \in SeqToSet(SplitFields(call.lines2[1]))
    /\ ret.ignored \notin SeqToSet(config.key_columns)

\* C18: adding a common non-key column C to ignore_columns lowers
\* total_field_mismatches by exactly the mismatch_count of C, and leaves
\* the counts of the other columns and common_records, only_in_file1 and
\* only_in_file2 as they were.
C18_IgnoringLowersByColumnCount ==
    (call.fn = "compare_structured_files" /\ call.lines1 # <<>> /\ call.lines2 # <<>>
     /\ IgnoredCommonNonKey) =>
        /\ ret.out.v.result.total_field_mismatches =
               ret.before.v.result.total_field_mismatches
                   - ReportedMismatches(ret.before, ret.ignored)
        /\ \A col \in ColumnNames \ {ret.ignored} :
               ReportedMismatches(ret.out, col) = ReportedMismatches(ret.before, col)
        /\ ret.out.v.result.common = ret.before.v.result.common
        /\ ret.out.v.result.only_in_file1 = ret.before.v.result.only_in_file1
        /\ ret.out.v.result.only_in_file2 = ret.before.v.result.only_in_file2

\* C18 witness: both columns had mismatches before val was ignored, and
\* only those of id are left.
C18_Witness ==
    /\ call.fn = "compare_structured_files" /\ call.lines1 # <<>> /\ call.lines2 # <<>>
    /\ IgnoredCommonNonKey
    /\ ret.ignored = "val"
    /\ ReportedMismatches(ret.before, "val") = 2
    /\ ReportedMismatches(ret.before, "id") = 1
    /\ ret.out.v.result.total_field_mismatches = 1

\* C19: running the comparison twice on the same inputs and configuration
\* yields the same result, every field equal, the order of common_columns,
\* columns_only_in_file1/2 and field_mismatches included.
C19_SecondRunGivesTheSameResult ==
    (pc = "ReturnedAgain" /\ call.fn = "compare_structured_files") =>
        ret.out = ret.before

RECURSIVE split(_, _)
\* The items of a character sequence between the separators.
split(s, sep) ==
    IF \E i \in 1..Len(s) : s[i] = sep
    THEN LET i == CHOOSE k \in 1..Len(s) : s[k] = sep /\ \A j \in 1..(k - 1) : s[j] # sep
         IN <<SubSeq(s, 1, i - 1)>> \o split(SubSeq(s, i + 1, Len(s)), sep)
    ELSE <<s>>

RECURSIVE parse_usize(_)
\* The number a sequence of decimal digits denotes.
parse_usize(digits) ==
    IF digits = <<>> THEN 0
    ELSE parse_usize(SubSeq(digits, 1, Len(digits) - 1)) * 10
             + (CHOOSE d \in 0..9 : Digits[d + 1] = digits[Len(digits)])

\* The positions one item stands for: "a-b" is a, a+1, ..., b and "c" is c.
decode_item(parts) ==
    IF Len(parts) = 1 THEN <<parse_usize(parts[1])>>
    ELSE [k \in 1..(parse_usize(parts[2]) - parse_usize(parts[1]) + 1) |->
             parse_usize(parts[1]) + k - 1]

RECURSIVE decode_items(_)
decode_items(items) ==
    IF items = <<>> THEN <<>>
    ELSE decode_item(split(Head(items), "-")) \o decode_items(Tail(items))

\* The positions an encoded string stands for.
decode_ranges(s) == IF s = <<>> THEN <<>> ELSE decode_items(split(s, ","))

\* The maximal runs of consecutive values of a list, as <<first, last>>,
\* ascending.
MaximalRuns(positions) ==
    LET S == SeqToSet(positions)
        firsts == SortedSeq({a \in S : (a - 1) \notin S})
    IN [k \in 1..Len(firsts) |->
           <<firsts[k],
             CHOOSE b \in S : b >= firsts[k] /\ (b + 1) \notin S /\ firsts[k]..b \subseteq S>>]

\* The items the runs are written as: one value, or first-last.
RunItems(runs) ==
    [k \in 1..Len(runs) |->
        IF runs[k][1] = runs[k][2] THEN to_string(runs[k][1])
        ELSE to_string(runs[k][1]) \o <<"-">> \o to_string(runs[k][2])]

\* C20: for every strictly ascending list of non-negative integers,
\* decoding the string encode_ranges produces gives back the list; every
\* maximal run is one a-b item, every single value one item, and the empty
\* list gives the empty string.
C20_EncodeRangesRoundTrip ==
    HasReturned("encode_ranges") =>
        /\ decode_ranges(ret.out) = call.positions
        /\ call.positions = <<>> => ret.out = <<>>
        /\ call.positions # <<>> =>
               split(ret.out, ",") = RunItems(MaximalRuns(call.positions))

\* C20 witness: runs, a single value and a two-digit end, "1-3,5,7-10".
C20_Witness ==
    /\ HasReturned("encode_ranges")
    /\ call.positions = <<1, 2, 3, 5, 7, 8, 9, 10>>
    /\ ret.out = <<"1", "-", "3", ",", "5", ",", "7", "-", "1", "0">>

\* The three classes of file types the rule names.
TypeClass(file_type) ==
    IF file_type = "Binary" THEN "binary"
    ELSE IF is_structured(file_type) THEN "structured"
    ELSE IF file_type = "Text" THEN "text"
    ELSE "none"

\* Binary pairs only with Binary, structured only with structured, Text only
\* with Text: an entry of one of the three classes has a partner of the same
\* class.
TypesCompatible(f1, f2) == TypeClass(f1.file_type) = TypeClass(f2.file_type)

\* C25: every pair the similarity pass of all-vs-all matching emits (a pair
\* that is no exact hash match) satisfies the file-type compatibility rule.
C25_SimilarityPairsAreTypeCompatible ==
    (Matched /\ config.pairing = "AllVsAll") =>
        \A i \in 1..Len(candidates) :
            ~candidates[i].exact_hash_match =>
                TypesCompatible(candidates[i].file1, candidates[i].file2)

\* The entry is one whose fingerprinting failed.
Unhashed(f) == f.content_hash = ""

\* C28: an entry whose content_hash was left empty is never exact-matched:
\* no emitted pair that contains such an entry has exact_hash_match = true
\* or estimated similarity 1.0, also when both hashes are empty; and the
\* failure leaves the other entries fingerprinted (every readable file has
\* its hash).
C28_UnhashedEntriesAreNeverExactMatched ==
    Matched =>
        /\ \A i \in 1..Len(candidates) :
               (Unhashed(candidates[i].file1) \/ Unhashed(candidates[i].file2)) =>
                   /\ ~candidates[i].exact_hash_match
                   /\ candidates[i].estimated_similarity # One
        /\ \A i \in 1..Len(files1) :
               FileAt(files1[i].path).readable => ~Unhashed(files1[i])
        /\ \A i \in 1..Len(files2) :
               FileAt(files2[i].path).readable => ~Unhashed(files2[i])

\* C28 witness: the unreadable file is paired with itself (both hashes
\* empty) next to a file that was fingerprinted.
C28_Witness ==
    /\ Matched
    /\ \E i \in 1..Len(candidates) :
          /\ Unhashed(candidates[i].file1) /\ Unhashed(candidates[i].file2)
          /\ candidates[i].file1.path = candidates[i].file2.path
    /\ \E i \in 1..Len(files1) : ~Unhashed(files1[i])

\* The entry is of a file the fingerprinter read and found larger than the
\* size limit of the call.
LargeFile(f) == FileAt(f.path).readable /\ f.size > call.max_file_size

\* The size-ratio fallback min(size)/max(size) x 0.3.
SizeRatioFallback(f1, f2) ==
    IF f1.size > 0 /\ f2.size > 0
    THEN Rat(3 * Min(f1.size, f2.size), 10 * Max(f1.size, f2.size))
    ELSE Zero

\* A file above the size limit has its content hash and no SimHash, and is
\* paired by exact hash match with a file of the same content.
LargeFileIsHashedOnly(large, other, exact) ==
    /\ large.content_hash # ""
    /\ ~large.simhash.some
    /\ FileAt(large.path).content = FileAt(other.path).content /\ FileAt(other.path).readable
           => Len(exact) = 1 /\ exact[1].exact_hash_match

\* The statement of C21 as the design document makes it: a file above
\* max_fingerprint_size has a content hash and no SimHash, is paired by exact
\* hash match, and scored against a file with a different hash its estimated
\* similarity is the size-ratio fallback.
C21_LargeFileScoresBySizeRatio ==
    HasReturned("estimate_similarity") =>
        LET o == ret.out IN
        /\ LargeFile(o.file1) =>
               /\ LargeFileIsHashedOnly(o.file1, o.file2, o.exact)
               /\ o.file2.content_hash # o.file1.content_hash
                      => o.similarity = SizeRatioFallback(o.file1, o.file2)
        /\ LargeFile(o.file2) =>
               /\ LargeFileIsHashedOnly(o.file2, o.file1, o.exact)
               /\ o.file1.content_hash # o.file2.content_hash
                      => o.similarity = SizeRatioFallback(o.file1, o.file2)

\* Both entries carry a schema signature and the two are equal.
SameSchema(f1, f2) ==
    /\ f1.schema_signature.some /\ f2.schema_signature.some
    /\ f1.schema_signature.v = f2.schema_signature.v

\* C21 (amended): a file above max_fingerprint_size has a content hash and no
\* SimHash and is paired by exact hash match; scored against a file with a
\* different hash its estimated similarity is 0.5 when both entries carry
\* equal schema signatures, and the size-ratio fallback otherwise.
C21_LargeFileScoresBySchemaOrSizeRatio ==
    HasReturned("estimate_similarity") =>
        LET o == ret.out
            fallback == IF SameSchema(o.file1, o.file2) THEN Rat(1, 2)
                        ELSE SizeRatioFallback(o.file1, o.file2)
        IN
        /\ LargeFile(o.file1) =>
               /\ LargeFileIsHashedOnly(o.file1, o.file2, o.exact)
               /\ o.file2.content_hash # o.file1.content_hash => o.similarity = fallback
        /\ LargeFile(o.file2) =>
               /\ LargeFileIsHashedOnly(o.file2, o.file1, o.exact)
               /\ o.file1.content_hash # o.file2.content_hash => o.similarity = fallback

\* C21 witness: two tables above the size limit with different contents and
\* the same header were scored 0.5, not by their sizes.
C21_Witness ==
    /\ HasReturned("estimate_similarity")
    /\ LargeFile(ret.out.file1) /\ LargeFile(ret.out.file2)
    /\ ret.out.file1.content_hash # ret.out.file2.content_hash
    /\ SameSchema(ret.out.file1, ret.out.file2)
    /\ ret.out.similarity = Rat(1, 2)
    /\ ret.out.similarity # SizeRatioFallback(ret.out.file1, ret.out.file2)

\* C27: estimate_similarity follows the precedence, the first rule that
\* applies wins: equal content hashes (both entries were hashed) give 1.0;
\* else both SimHashes give 1 - hamming/64; else equal schema signatures give
\* 0.5; else two positive sizes give min/max x 0.3; else 0.  The value is
\* within [0, 1].
C27_EstimateSimilarityPrecedence ==
    HasReturned("estimate_similarity") =>
        LET f1 == ret.out.file1
            f2 == ret.out.file2
            s == ret.out.similarity
            rule1 == f1.content_hash # "" /\ f1.content_hash = f2.content_hash
            rule2 == f1.simhash.some /\ f2.simhash.some
            rule3 == SameSchema(f1, f2)
            rule4 == f1.size > 0 /\ f2.size > 0
        IN
        /\ rule1 => s = One
        /\ ~rule1 /\ rule2 =>
               s = Rat(SimHashBits - hamming_distance(f1.simhash.v, f2.simhash.v), SimHashBits)
        /\ ~rule1 /\ ~rule2 /\ rule3 => s = Rat(1, 2)
        /\ ~rule1 /\ ~rule2 /\ ~rule3 /\ rule4 =>
               s = Rat(3 * Min(f1.size, f2.size), 10 * Max(f1.size, f2.size))
        /\ ~rule1 /\ ~rule2 /\ ~rule3 /\ ~rule4 => s = Zero
        /\ RatLeq(Zero, s) /\ RatLeq(s, One)

\* C27 witness: two tables with the same header and different SimHashes were
\* scored by the SimHash rule, which precedes the schema rule.
C27_Witness ==
    /\ HasReturned("estimate_similarity")
    /\ ret.out.file1.content_hash # ret.out.file2.content_hash
    /\ ret.out.file1.simhash.some /\ ret.out.file2.simhash.some
    /\ SameSchema(ret.out.file1, ret.out.file2)
    /\ ret.out.similarity # Rat(1, 2)
    /\ ret.out.similarity # One

\* The right entries that pass the blocking rules for the left entry.
Passing(f1, right) ==
    { j \in 1..Len(right) : passes_blocking_rules(f1, right[j]) }

\* The pairs the similarity pass returned for the left entry.
KeptFor(pairs, f1) == { i \in 1..Len(pairs) : pairs[i].file1.path = f1.path }

\* C26: in the similarity pass every left entry contributes at most top_k
\* pairs (all passing entries when there are fewer than top_k), each pair with
\* a right entry that passed the blocking rules, and no passing right entry
\* that was dropped scores strictly higher than one that was kept.
C26_TopKKeepsTheHighestScoring ==
    HasReturned("find_similarity_matches") =>
        LET left == [i \in 1..Len(call.paths1) |-> fingerprinted(call.paths1[i], call.max_file_size)]
            right == [i \in 1..Len(call.paths2) |-> fingerprinted(call.paths2[i], call.max_file_size)]
        IN \A l \in 1..Len(left) :
             LET kept == KeptFor(ret.out, left[l])
                 keptPaths == { ret.out[i].file2.path : i \in kept }
                 passing == Passing(left[l], right)
             IN /\ Cardinality(kept) = Min(call.top_k, Cardinality(passing))
                /\ Cardinality(keptPaths) = Cardinality(kept)
                /\ keptPaths \subseteq { right[j].path : j \in passing }
                /\ \A j \in passing : right[j].path \notin keptPaths =>
                       \A i \in kept :
                           ~RatLt(ret.out[i].estimated_similarity,
                                  estimate_similarity(left[l], right[j]))

\* C26 witness: a left entry with more passing right entries than top_k had
\* a lower-scoring entry dropped that came before the kept one in the list.
C26_Witness ==
    /\ HasReturned("find_similarity_matches")
    /\ Len(call.paths1) = 2
    /\ call.top_k = 1
    /\ \E i \in 1..Len(ret.out) : \E j \in 1..Len(call.paths2) :
          /\ call.paths2[j] # ret.out[i].file2.path
          /\ call.paths2[1] = call.paths2[j]
          /\ LET dropped == fingerprinted(call.paths2[j], call.max_file_size)
             IN /\ passes_blocking_rules(ret.out[i].file1, dropped)
                /\ RatLt(estimate_similarity(ret.out[i].file1, dropped),
                         ret.out[i].estimated_similarity)

\* The four stages, named by the message of their start call, in pipeline
\* order.
Stages ==
    <<"Indexing files...", "Computing fingerprints...", "Generating candidates...",
      "Comparing files...">>

\* The positions of the start events.
StartPositions == { i \in 1..Len(events) : events[i].kind = "start" }

\* The start event at position i is followed by a finish before the next
\* start event: a finish of the stage that started at i.
FinishedBeforeNextStart(i) ==
    \A j \in StartPositions : j > i =>
        \E k \in (i + 1)..(j - 1) : events[k].kind = "finish"

\* C22: the progress bus sees the stages in the order Indexing,
\* Fingerprinting, Matching, Comparing; the start of the fingerprinting and of
\* the comparing stage carries the stage's count; every start is followed by
\* a finish of the same stage before the next start, and once the compare
\* stage is over every stage has started and finished.
C22_EveryStageStartsAndFinishes ==
    /\ \A i \in StartPositions :
           /\ events[i].message = Stages[Cardinality({j \in StartPositions : j <= i})]
           /\ FinishedBeforeNextStart(i)
    /\ Compared =>
           /\ Cardinality(StartPositions) = Len(Stages)
           /\ \A i \in StartPositions :
                  \E k \in (i + 1)..Len(events) :
                      /\ events[k].kind = "finish"
                      /\ \A j \in StartPositions : ~(i < j /\ j < k)
           /\ \E i \in StartPositions :
                  events[i].message = "Comparing files..." /\ events[i].total = Len(candidates)
           /\ \E i \in StartPositions :
                  /\ events[i].message = "Computing fingerprints..."
                  /\ events[i].total = Len(files1) + Len(files2)

\* The normalised lines of the two files of a text call.
CallLines1 == read_lines_of(Readable, Utf8Content(call.lines1), config.normalization).v

CallLines2 == read_lines_of(Readable, Utf8Content(call.lines2), config.normalization).v

\* The '-line' / '+line' buffer after the first k changes of the call's diff
\* went through the loop.
DiffAfter(k) ==
    line_diff(SubSeq(diff_changes(CallLines1, CallLines2), 1, k),
              [text |-> "", diff_bytes |-> 0, truncated |-> FALSE], config.max_diff_bytes)

CallKeys1 ==
    LET r == parse_lines(call.lines1, config.key_columns).records
    IN [i \in 1..Len(r) |-> r[i].key]

CallKeys2 ==
    LET r == parse_lines(call.lines2, config.key_columns).records
    IN [i \in 1..Len(r) |-> r[i].key]

\* The number of records that carry the key.
KeyCount(keys, k) == Cardinality({i \in 1..Len(keys) : keys[i] = k})

\* The number of record pairs a merge join of the two key lists matches:
\* for every key, as many as the side with fewer records of that key has.
MatchedPairs(keys1, keys2) ==
    Cardinality({ <<k, n>> \in SeqToSet(keys1) \X (1..Len(keys1)) :
                    n <= Min(KeyCount(keys1, k), KeyCount(keys2, k)) })

\* C30: the merge join accounts for every record exactly once:
\* common_records + only_in_file1 is the number of records of file 1,
\* common_records + only_in_file2 that of file 2, with duplicate keys and
\* with empty sides; a record is common only with a record of the same key of
\* the other side, so a key present on one side only adds to that side's
\* only-in count and never to common_records.
C30_MergeJoinAccountsForEveryRecord ==
    (HasReturned("compare_structured_files") /\ ret.out.ok) =>
        LET r == ret.out.v.result IN
        /\ r.file1_count = DataRows(call.lines1)
        /\ r.file2_count = DataRows(call.lines2)
        /\ r.common + r.only_in_file1 = r.file1_count
        /\ r.common + r.only_in_file2 = r.file2_count
        /\ r.common = MatchedPairs(CallKeys1, CallKeys2)

\* C30 witness: a key that occurs twice on one side and once on the other,
\* next to a key of one side only: one common record, one record only in
\* each file.
C30_Witness ==
    /\ HasReturned("compare_structured_files") /\ ret.out.ok
    /\ config.key_columns = <<"id">>
    /\ call.lines1 = <<"id,val", "1,10", "1,11">>
    /\ call.lines2 = <<"id,val", "2,x", "1,10">>
    /\ ret.out.v.result.common = 1
    /\ ret.out.v.result.only_in_file1 = 1
    /\ ret.out.v.result.only_in_file2 = 1

\* C23: under every interleaving of the compare-stage workers calling
\* inc(1), every progress event emitted has current <= total whenever
\* total > 0, so its percentage lies within [0, 100]; with total = 0 the
\* percentage is 0; and the event of a finish has current = total.
C23_ProgressStaysWithinTotal ==
    \A k \in 1..Len(emitted) :
        LET e == emitted[k] IN
        /\ e.total > 0 =>
               /\ e.current <= e.total
               /\ RatLeq(Zero, e.percentage) /\ RatLeq(e.percentage, Rat(100, 1))
        /\ e.total = 0 => e.percentage = Zero
        /\ e.stage \in {"Fingerprinting complete", "Comparison complete"} =>
               e.current = e.total

\* C23 witness: two workers were interleaved so that the first event of an
\* inc(1) already showed both increments, and the stage has finished.
C23_Witness ==
    /\ pc = "Summarising"
    /\ emitted[Len(emitted)].stage = "Comparison complete"
    /\ emitted[Len(emitted)].total = 2
    /\ \E k \in 2..Len(emitted) :
          /\ emitted[k - 1].stage = "Comparing files..." /\ emitted[k - 1].current = 0
          /\ emitted[k].stage = "Comparing files..." /\ emitted[k].current = 2
          /\ emitted[k].percentage = Rat(100, 1)

\* The number of inc calls made since the last start.
IncCallsOfStage ==
    Cardinality({ k \in 1..Len(events) :
                    /\ events[k].kind = "inc"
                    /\ \A j \in StartPositions : j < k })

\* C24: the result list of the compare stage has the length and the order
\* of the candidate list, result i being the comparison of pair i whatever
\* order the workers finish in; and once all workers are done inc(1) has been
\* called once per pair, so the counter equals the number of pairs.
C24_ResultsFollowTheCandidateOrder ==
    /\ pc = "Summarising" =>
           /\ Len(results) = Len(candidates)
           /\ \A i \in 1..Len(candidates) : results[i] = compare_pair(candidates[i], config)
    /\ (pc = "ComparingPairs" /\ Len(collected) = Len(candidates)) =>
           /\ reporter.current = Len(candidates)
           /\ IncCallsOfStage = Len(candidates)
           /\ \A i \in 1..Len(candidates) :
                  Cardinality({k \in 1..Len(collected) : collected[k].index = i}) = 1

\* C24 witness: the worker of the second pair returned before the worker of
\* the first pair, and the two results differ.
C24_Witness ==
    /\ pc = "Summarising"
    /\ Len(candidates) = 2
    /\ collected[1].index = 2
    /\ results[1] # results[2]
    /\ results[1] = collected[2].result

====
